---- MODULE Spec2Model ----
(***************************************************************************)
(* A model of the three text-processing algorithms of the dev-tools        *)
(* repository: the JSON differ (src/src/lib/json-diff.ts), the PHP array   *)
(* parser and serializer (src/src/lib/php-parser.ts) and the DDL parser    *)
(* (src/unnamed/part_012, imported by its test as ./ddl-parser).           *)
(*                                                                         *)
(* Texts are sequences of one-character strings.  JavaScript values are    *)
(* records [t, p, c]: t the kind of the value, p the payload of a          *)
(* primitive, c the entries [k, v] of a container in enumeration order     *)
(* (for an array k is the decimal index).                                  *)
(***************************************************************************)
EXTENDS Integers, Sequences, FiniteSets, TLC

VARIABLES
    \* compareJson: the arguments, whether it has returned, the result
    oldJson, newJson, mode, diffDone, diffResult,
    \* parseDDL: the argument, where the call stands ("called", "loop", "returned",
    \* "thrown"), the statements of its loop and the position of the loop in
    \* them, its two accumulators, the error thrown and the result returned; the
    \* parts the argument is written from (when it is one table definition among
    \* other statements, see below)
    ddlText, ddlPc, statements, stmtIdx, tables, standaloneIndexes, ddlError, ddlResult,
    ddlParts,
    \* convertToPHP and parsePHPArray: the value converted (when the text comes
    \* from convertToPHP), the text parsed, where the calls stand ("convert",
    \* "called", "try", "catch", "returned", "thrown"), the cleaned text, what
    \* the two parsers came to (when they ran) and what the caller gets; the
    \* elements and the syntax of the text (when it is written as an array
    \* literal of the elements below)
    phpValue, phpInput, phpPc, cleanString, smartResult, simpleResult, phpResult, phpLiteral

diffVars == <<oldJson, newJson, mode, diffDone, diffResult>>
ddlVars ==
    <<ddlText, ddlPc, statements, stmtIdx, tables, standaloneIndexes, ddlError, ddlResult,
      ddlParts>>
phpVars ==
    <<phpValue, phpInput, phpPc, cleanString, smartResult, simpleResult, phpResult, phpLiteral>>
vars == <<diffVars, ddlVars, phpVars>>

-----------------------------------------------------------------------------
(* JavaScript values *)

Num(n)  == [t |-> "number",  p |-> ToString(n), c |-> <<>>]
Str(s)  == [t |-> "string",  p |-> s,           c |-> <<>>]
Bool(b) == [t |-> "boolean", p |-> IF b THEN "true" ELSE "false", c |-> <<>>]
Null    == [t |-> "null",    p |-> "null",      c |-> <<>>]
Undefined == [t |-> "undefined", p |-> "undefined", c |-> <<>>]
Obj(entries) == [t |-> "object", p |-> "", c |-> entries]
Arr(elems) ==
    [t |-> "array", p |-> "",
     c |-> [i \in 1..Len(elems) |-> [k |-> ToString(i - 1), v |-> elems[i]]]]
\* A method inherited from Object.prototype, as a property read returns it.
Inherited(name) == [t |-> "function", p |-> name, c |-> <<>>]

\* The property names every plain object inherits (of which the model's key
\* alphabet uses "toString").
ObjectPrototypeKeys == {"toString", "constructor", "valueOf", "hasOwnProperty"}

\* Object.keys(obj), obj.length
ObjectKeys(obj) == [i \in 1..Len(obj.c) |-> obj.c[i].k]
Length(arr) == Len(arr.c)
HasOwn(obj, key) == \E i \in 1..Len(obj.c) : obj.c[i].k = key
\* key in obj
HasProperty(obj, key) == HasOwn(obj, key) \/ key \in ObjectPrototypeKeys
\* obj[key]
Get(obj, key) ==
    IF HasOwn(obj, key)
    THEN obj.c[CHOOSE i \in 1..Len(obj.c) : obj.c[i].k = key].v
    ELSE IF key \in ObjectPrototypeKeys THEN Inherited(key) ELSE Undefined
\* arr[i], i counted from 0
At(arr, i) == IF i < Len(arr.c) THEN arr.c[i + 1].v ELSE Undefined

IsArray(v) == v.t = "array"
TypeOf(v) == IF v.t \in {"null", "array", "object"} THEN "object" ELSE v.t

\* seq.indexOf(x), counted from 0, -1 when absent
IndexOf(seq, x) ==
    IF \E i \in 1..Len(seq) : seq[i] = x
    THEN (CHOOSE i \in 1..Len(seq) : seq[i] = x /\ \A j \in 1..(i - 1) : seq[j] # x) - 1
    ELSE -1
Includes(seq, x) == \E i \in 1..Len(seq) : seq[i] = x

\* seq.slice().sort((a, b) => ref.indexOf(a) - ref.indexOf(b)): a stable sort
\* by the position in ref, as an insertion sort.
RECURSIVE InsertByIndex(_, _, _)
InsertByIndex(sorted, x, ref) ==
    IF sorted = <<>> THEN <<x>>
    ELSE IF IndexOf(ref, sorted[Len(sorted)]) - IndexOf(ref, x) > 0
         THEN Append(InsertByIndex(SubSeq(sorted, 1, Len(sorted) - 1), x, ref),
                     sorted[Len(sorted)])
         ELSE Append(sorted, x)
RECURSIVE SortByIndex(_, _)
SortByIndex(seq, ref) ==
    IF seq = <<>> THEN <<>>
    ELSE InsertByIndex(SortByIndex(SubSeq(seq, 1, Len(seq) - 1), ref), seq[Len(seq)], ref)

-----------------------------------------------------------------------------
(* json-diff.ts *)

\* A DiffItem; an optional field that is not set holds Undefined (a value) or
\* the empty sequence (an index).
DiffItem(path, type, oldValue, newValue, oldIndex, newIndex) ==
    [path |-> path, type |-> type, oldValue |-> oldValue, newValue |-> newValue,
     oldIndex |-> oldIndex, newIndex |-> newIndex]

\* A getValueType that would go by typeof alone, an array being an object.
getValueTypeByTypeOf(value) ==
    IF value = Null THEN "null" ELSE TypeOf(value)
getValueType(value) ==
    IF value = Null THEN "null"
    ELSE IF IsArray(value) THEN "array"
    ELSE TypeOf(value)

\* An isEqual that would go by the types of the two values alone.
isEqualByType(a, b) == getValueType(a) = getValueType(b)
RECURSIVE isEqual(_, _)
isEqual(a, b) ==
    IF a = Null /\ b = Null THEN TRUE
    ELSE IF a = Null \/ b = Null THEN FALSE
    ELSE IF IsArray(a) /\ IsArray(b)
    THEN IF Length(a) # Length(b) THEN FALSE
         ELSE \A i \in 0..(Length(a) - 1) : isEqual(At(a, i), At(b, i))
    ELSE IF TypeOf(a) = "object" /\ TypeOf(b) = "object"
    THEN IF Len(ObjectKeys(a)) # Len(ObjectKeys(b)) THEN FALSE
         ELSE \A i \in 1..Len(ObjectKeys(a)) :
                 isEqual(Get(a, ObjectKeys(a)[i]), Get(b, ObjectKeys(a)[i]))
    ELSE a = b

\* The loop of checkKeyOrder from index i on (i counted from 0).
RECURSIVE checkKeyOrderFrom(_, _, _, _, _)
checkKeyOrderFrom(i, oldCommonOrder, newCommonOrder, basePath, diffs) ==
    IF i >= Len(oldCommonOrder) THEN diffs
    ELSE
      LET key == oldCommonOrder[i + 1]
          newPosition == IndexOf(newCommonOrder, key)
          currentPath == IF basePath # "" THEN basePath \o "." \o key ELSE key
          alreadyAdded == \E n \in 1..Len(diffs) :
                             diffs[n].path = currentPath /\ diffs[n].type = "order_changed"
          pushed ==
            IF oldCommonOrder[i + 1] # newCommonOrder[i + 1]
               /\ i # newPosition /\ ~alreadyAdded
            THEN Append(diffs, DiffItem(currentPath, "order_changed", Undefined, Undefined,
                                        <<i>>, <<newPosition>>))
            ELSE diffs
      IN checkKeyOrderFrom(i + 1, oldCommonOrder, newCommonOrder, basePath, pushed)

\* A checkKeyOrder that looks the key's new position up in the old order.
checkKeyOrderOldPosition(oldKeys, newKeys, basePath, diffs) ==
    LET commonKeys == SelectSeq(oldKeys, LAMBDA key : Includes(newKeys, key))
        oldCommonOrder == SortByIndex(commonKeys, oldKeys)
    IN checkKeyOrderFrom(0, oldCommonOrder, oldCommonOrder, basePath, diffs)

\* A checkKeyOrder that would go by the positions of the common keys among all
\* the keys of each side.
checkKeyOrderAmongAll(oldKeys, newKeys, basePath, diffs) ==
    LET commonKeys == SelectSeq(oldKeys, LAMBDA key : Includes(newKeys, key))
        moved == SelectSeq(commonKeys, LAMBDA key : IndexOf(oldKeys, key) # IndexOf(newKeys, key))
    IN diffs \o [i \in 1..Len(moved) |->
                   DiffItem(IF basePath # "" THEN basePath \o "." \o moved[i] ELSE moved[i],
                            "order_changed", Undefined, Undefined,
                            <<IndexOf(oldKeys, moved[i])>>, <<IndexOf(newKeys, moved[i])>>)]
checkKeyOrder(oldKeys, newKeys, basePath, diffs) ==
    LET commonKeys == SelectSeq(oldKeys, LAMBDA key : Includes(newKeys, key))
        oldCommonOrder == SortByIndex(commonKeys, oldKeys)
        newCommonOrder == SortByIndex(commonKeys, newKeys)
    IN checkKeyOrderFrom(0, oldCommonOrder, newCommonOrder, basePath, diffs)

\* new Set([...oldKeys, ...newKeys]), in the order a Set iterates: first insertion.
RECURSIVE SetOf(_)
SetOf(seq) ==
    IF seq = <<>> THEN <<>>
    ELSE LET front == SetOf(SubSeq(seq, 1, Len(seq) - 1))
         IN IF Includes(front, seq[Len(seq)]) THEN front ELSE Append(front, seq[Len(seq)])

\* A compareObjects that checks the key order whatever the mode.
checksKeyOrderAlways(m) == TRUE

\* Whether compareObjects checks the key order under this mode.
checksKeyOrder(m) == m = "strict"

RECURSIVE compareValues(_, _, _, _, _)
RECURSIVE compareObjectsFrom(_, _, _, _, _, _, _)
RECURSIVE compareArraysFrom(_, _, _, _, _, _)

\* A loop of compareObjects that would pass over a key the key order check has
\* given an item for.
compareObjectsFromExclusive(n, allKeys, oldObj, newObj, basePath, m, diffs) ==
    IF n > Len(allKeys) THEN diffs
    ELSE
      LET key == allKeys[n]
          currentPath == IF basePath # "" THEN basePath \o "." \o key ELSE key
          hasOld == HasProperty(oldObj, key)
          hasNew == HasProperty(newObj, key)
          moved == \E x \in 1..Len(diffs) :
                      diffs[x].path = currentPath /\ diffs[x].type = "order_changed"
          after ==
            IF moved THEN diffs
            ELSE IF hasOld /\ ~hasNew
            THEN Append(diffs, DiffItem(currentPath, "removed", Get(oldObj, key), Undefined,
                                        <<>>, <<>>))
            ELSE IF ~hasOld /\ hasNew
            THEN Append(diffs, DiffItem(currentPath, "added", Undefined, Get(newObj, key),
                                        <<>>, <<>>))
            ELSE compareValues(Get(oldObj, key), Get(newObj, key), currentPath, m, diffs)
      IN compareObjectsFrom(n + 1, allKeys, oldObj, newObj, basePath, m, after)
\* The for-of loop of compareObjects over allKeys from position n on.
compareObjectsFrom(n, allKeys, oldObj, newObj, basePath, m, diffs) ==
    IF n > Len(allKeys) THEN diffs
    ELSE
      LET key == allKeys[n]
          currentPath == IF basePath # "" THEN basePath \o "." \o key ELSE key
          hasOld == HasProperty(oldObj, key)
          hasNew == HasProperty(newObj, key)
          after ==
            IF hasOld /\ ~hasNew
            THEN Append(diffs, DiffItem(currentPath, "removed", Get(oldObj, key), Undefined,
                                        <<>>, <<>>))
            ELSE IF ~hasOld /\ hasNew
            THEN Append(diffs, DiffItem(currentPath, "added", Undefined, Get(newObj, key),
                                        <<>>, <<>>))
            ELSE compareValues(Get(oldObj, key), Get(newObj, key), currentPath, m, diffs)
      IN compareObjectsFrom(n + 1, allKeys, oldObj, newObj, basePath, m, after)

compareObjects(oldObj, newObj, basePath, m, diffs) ==
    LET oldKeys == ObjectKeys(oldObj)
        newKeys == ObjectKeys(newObj)
        allKeys == SetOf(oldKeys \o newKeys)
        ordered == IF checksKeyOrder(m)
                   THEN checkKeyOrder(oldKeys, newKeys, basePath, diffs)
                   ELSE diffs
    IN compareObjectsFrom(1, allKeys, oldObj, newObj, basePath, m, ordered)

\* The for loop of compareArrays from index i on.
compareArraysFrom(i, oldArr, newArr, basePath, m, diffs) ==
    LET maxLength == IF Length(oldArr) >= Length(newArr) THEN Length(oldArr)
                     ELSE Length(newArr)
    IN IF i >= maxLength THEN diffs
       ELSE
         LET currentPath == basePath \o "[" \o ToString(i) \o "]"
             hasOld == i < Length(oldArr)
             hasNew == i < Length(newArr)
             after ==
               IF hasOld /\ ~hasNew
               THEN Append(diffs, DiffItem(currentPath, "removed", At(oldArr, i), Undefined,
                                           <<>>, <<>>))
               ELSE IF ~hasOld /\ hasNew
               THEN Append(diffs, DiffItem(currentPath, "added", Undefined, At(newArr, i),
                                           <<>>, <<>>))
               ELSE compareValues(At(oldArr, i), At(newArr, i), currentPath, m, diffs)
         IN compareArraysFrom(i + 1, oldArr, newArr, basePath, m, after)

\* A compareArrays that would compare the indexes both arrays have and no other.
compareArraysInCommon(oldArr, newArr, basePath, m, diffs) ==
    LET minLength == IF Length(oldArr) <= Length(newArr) THEN Length(oldArr)
                     ELSE Length(newArr)
    IN compareArraysFrom(0, [oldArr EXCEPT !.c = SubSeq(@, 1, minLength)],
                         [newArr EXCEPT !.c = SubSeq(@, 1, minLength)], basePath, m, diffs)
\* A compareArrays that would report an element found one index further on as moved.
compareArraysMoved(oldArr, newArr, basePath, m, diffs) ==
    compareArraysFrom(0, oldArr, newArr, basePath, m,
                      IF Length(oldArr) > 0 /\ Length(newArr) > 1 /\ At(oldArr, 0) = At(newArr, 1)
                      THEN Append(diffs, DiffItem(basePath \o "[0]", "order_changed", Undefined,
                                                  Undefined, <<0>>, <<1>>))
                      ELSE diffs)
compareArrays(oldArr, newArr, basePath, m, diffs) ==
    compareArraysFrom(0, oldArr, newArr, basePath, m, diffs)

compareValues(oldVal, newVal, path, m, diffs) ==
    LET oldType == getValueType(oldVal)
        newType == getValueType(newVal)
        shown == IF path # "" THEN path ELSE "(root)"
    IN IF oldType # newType
       THEN Append(diffs, DiffItem(shown, "modified", oldVal, newVal, <<>>, <<>>))
       ELSE IF oldType = "object" THEN compareObjects(oldVal, newVal, path, m, diffs)
       ELSE IF oldType = "array" THEN compareArrays(oldVal, newVal, path, m, diffs)
       ELSE IF ~isEqual(oldVal, newVal)
            THEN Append(diffs, DiffItem(shown, "modified", oldVal, newVal, <<>>, <<>>))
            ELSE diffs

\* A compareJson that would decide isEqual by a comparison of its own.
compareJsonByEquality(old, new, m) ==
    [isEqual |-> isEqual(old, new), diffs |-> compareValues(old, new, "", m, <<>>)]
compareJson(old, new, m) ==
    LET diffs == compareValues(old, new, "", m, <<>>)
    IN [isEqual |-> Len(diffs) = 0, diffs |-> diffs]

-----------------------------------------------------------------------------
(* Texts: sequences of one-character strings *)

UpperLetters == <<"A", "B", "C", "D", "E", "F", "G", "H", "I", "J", "K", "L", "M", "N", "O", "P", "Q", "R", "S", "T", "U", "V", "W", "X", "Y", "Z">>
LowerLetters == <<"a", "b", "c", "d", "e", "f", "g", "h", "i", "j", "k", "l", "m", "n", "o", "p", "q", "r", "s", "t", "u", "v", "w", "x", "y", "z">>
Range(seq) == {seq[i] : i \in 1..Len(seq)}
DigitChars == Range(<<"0", "1", "2", "3", "4", "5", "6", "7", "8", "9">>)
LetterChars == Range(UpperLetters) \cup Range(LowerLetters)
WordChars == LetterChars \cup DigitChars \cup {"_"}      \* \w
SpaceChars == {" ", "\n", "\t", "\r"}                    \* \s
\* The backtick character (a string literal of this language cannot hold it).
Backtick == "backtick"
QuoteChars == {Backtick, "\"", "'"}                      \* [`"']

\* c.toLowerCase() of one character
LowerChar(c) ==
    IF c \in Range(UpperLetters)
    THEN LowerLetters[CHOOSE i \in 1..26 : UpperLetters[i] = c]
    ELSE c
toLowerCase(s) == [i \in 1..Len(s) |-> LowerChar(s[i])]
UpperChar(c) ==
    IF c \in Range(LowerLetters)
    THEN UpperLetters[CHOOSE i \in 1..26 : LowerLetters[i] = c]
    ELSE c
toUpperCase(s) == [i \in 1..Len(s) |-> UpperChar(s[i])]

\* A loop of at most `turns` turns: Step is its body, Done its exit test, st the
\* state it starts from (the turns are halved so that the evaluation stays shallow).
RECURSIVE Loop(_, _, _, _)
Loop(Step(_), Done(_), st, turns) ==
    IF turns = 0 \/ Done(st) THEN st
    ELSE IF turns = 1 THEN Step(st)
    ELSE LET half == Loop(Step, Done, st, turns \div 2)
         IN IF Done(half) THEN half ELSE Loop(Step, Done, half, turns - (turns \div 2))

\* s.trim()
Trim(s) ==
    LET kept == {i \in 1..Len(s) : s[i] \notin SpaceChars}
    IN IF kept = {} THEN <<>>
       ELSE SubSeq(s, CHOOSE i \in kept : \A j \in kept : i <= j,
                      CHOOSE i \in kept : \A j \in kept : j <= i)

\* The least element of a non-empty set of positions.
Least(S) == CHOOSE i \in S : \A j \in S : i <= j

\* s.split(sep) for a one-character separator: the pieces between the separators.
RECURSIVE Split(_, _)
Split(s, sep) ==
    LET at == {i \in 1..Len(s) : s[i] = sep}
    IN IF at = {} THEN <<s>>
       ELSE <<SubSeq(s, 1, Least(at) - 1)>> \o Split(SubSeq(s, Least(at) + 1, Len(s)), sep)

\* Regular expressions.  An expression is a sequence of items; matching follows
\* the threads of the search in the order in which backtracking tries them, so
\* that the first thread to reach the end is the match.  A thread is the
\* position reached and the groups captured on the way.
Class(set, neg) == [set |-> set, neg |-> neg]
InClass(c, class) == (c \in class.set) # class.neg
Item(op, w, class, min, max, alts, g) ==
    [op |-> op, w |-> w, class |-> class, min |-> min, max |-> max, alts |-> alts, g |-> g]
NoClass == Class({}, FALSE)
\* a literal word, given in lower case; its letters match in either case (flag i)
Word(w) == Item("word", w, NoClass, 0, 0, <<>>, 0)
\* a literal text, matched exactly
Exactly(w) == Item("exactly", w, NoClass, 0, 0, <<>>, 0)
\* class+, class*, class? and one character of the class (greedy); max = 0
\* stands for no maximum
Plus(class) == Item("run", <<>>, class, 1, 0, <<>>, 0)
Star(class) == Item("run", <<>>, class, 0, 0, <<>>, 0)
Opt(class) == Item("run", <<>>, class, 0, 1, <<>>, 0)
One(class) == Item("run", <<>>, class, 1, 1, <<>>, 0)
\* (?:a|b|...), (?:a)? and the capturing (a|b|...) numbered g
Alt(alts) == Item("alt", <<>>, NoClass, 0, 0, alts, 0)
Maybe(items) == Item("alt", <<>>, NoClass, 0, 0, <<items, <<>>>>, 0)
Group(g, alts) == Item("alt", <<>>, NoClass, 0, 0, alts, g)
\* (?:items)*
Repeat(items) == Item("repeat", <<>>, NoClass, 0, 0, <<items>>, 0)
\* ^ and $ (without flag m), \b
AtStart == Item("start", <<>>, NoClass, 0, 0, <<>>, 0)
AtEnd == Item("end", <<>>, NoClass, 0, 0, <<>>, 0)
Boundary == Item("boundary", <<>>, NoClass, 0, 0, <<>>, 0)

MaxGroups == 4
NoGroups == [g \in 1..MaxGroups |-> [from |-> 0, to |-> 0]]
Thread(pos) == [pos |-> pos, groups |-> NoGroups]

\* The concatenation of the sequences ss[lo], ..., ss[hi].
RECURSIVE Concat(_, _, _)
Concat(ss, lo, hi) ==
    IF lo > hi THEN <<>>
    ELSE IF lo = hi THEN ss[lo]
    ELSE Concat(ss, lo, (lo + hi) \div 2) \o Concat(ss, ((lo + hi) \div 2) + 1, hi)

\* The end of the longest run of at most max characters of the class from pos on
\* (max = 0: of any number of characters).
RunEnd(s, pos, class, max) ==
    LET last == IF max = 0 \/ pos + max - 1 > Len(s) THEN Len(s) ELSE pos + max - 1
        stops == {j \in pos..last : ~InClass(s[j], class)}
    IN IF stops = {} THEN last + 1 ELSE Least(stops)

\* The threads of a group numbered g that began at position from (g = 0: no group).
Capture(g, from, threads) ==
    IF g = 0 THEN threads
    ELSE [n \in 1..Len(threads) |->
            [threads[n] EXCEPT !.groups[g] = [from |-> from, to |-> threads[n].pos]]]

\* The threads of a greedy run that can end before position end at most and
\* takes min characters at least: the longest first.
RunThreads(th, end, min) ==
    [n \in 1..(end - th.pos - min + 1) |-> [th EXCEPT !.pos = end - n + 1]]

\* Whether a word character stands at position pos (none stands outside the text).
IsWordAt(s, pos) == pos >= 1 /\ pos <= Len(s) /\ s[pos] \in WordChars

RECURSIVE MatchItems(_, _, _)
RECURSIVE Advance(_, _, _)
RECURSIVE RepeatThreads(_, _, _)
\* The threads that one thread gives rise to by matching one item.
Advance(item, s, th) ==
    CASE item.op = "word" ->
           IF /\ th.pos + Len(item.w) - 1 <= Len(s)
              /\ \A j \in 1..Len(item.w) : LowerChar(s[th.pos + j - 1]) = item.w[j]
           THEN <<[th EXCEPT !.pos = @ + Len(item.w)]>> ELSE <<>>
      [] item.op = "exactly" ->
           IF /\ th.pos + Len(item.w) - 1 <= Len(s)
              /\ \A j \in 1..Len(item.w) : s[th.pos + j - 1] = item.w[j]
           THEN <<[th EXCEPT !.pos = @ + Len(item.w)]>> ELSE <<>>
      [] item.op = "run" ->
           RunThreads(th, RunEnd(s, th.pos, item.class, item.max), item.min)
      [] item.op = "alt" ->
           Concat([a \in 1..Len(item.alts) |->
                     Capture(item.g, th.pos, MatchItems(item.alts[a], s, <<th>>))],
                  1, Len(item.alts))
      [] item.op = "repeat" -> RepeatThreads(item.alts[1], s, th)
      [] item.op = "start" -> IF th.pos = 1 THEN <<th>> ELSE <<>>
      [] item.op = "end" -> IF th.pos = Len(s) + 1 THEN <<th>> ELSE <<>>
      [] item.op = "boundary" ->
           IF IsWordAt(s, th.pos - 1) # IsWordAt(s, th.pos) THEN <<th>> ELSE <<>>
\* The threads of (?:items)* from one thread: those of one more turn that took
\* characters and went on repeating, then the thread itself.
RepeatThreads(items, s, th) ==
    LET once == SelectSeq(MatchItems(items, s, <<th>>), LAMBDA r : r.pos > th.pos)
    IN Concat([n \in 1..Len(once) |-> RepeatThreads(items, s, once[n])], 1, Len(once))
       \o <<th>>
\* The threads after the items, in the order backtracking reaches them.
MatchItems(items, s, threads) ==
    Loop(LAMBDA st : [k |-> st.k + 1,
                      threads |-> Concat([t \in 1..Len(st.threads) |->
                                            Advance(items[st.k], s, st.threads[t])],
                                         1, Len(st.threads))],
         LAMBDA st : st.k > Len(items) \/ st.threads = <<>>,
         [k |-> 1, threads |-> threads], Len(items)).threads

\* s.match(re) without flag g: the leftmost match, and of the matches there the
\* one backtracking finds first.  The search tries the positions from the left
\* (an expression that begins with ^ can match at the first only).
NoMatch == [ok |-> FALSE, index |-> 0, next |-> 0, groups |-> NoGroups]
FirstThread(threads) == IF threads = <<>> THEN <<>> ELSE <<threads[1]>>
MatchOf(st) ==
    IF st.found = <<>> THEN NoMatch
    ELSE [ok |-> TRUE, index |-> st.i - 1, next |-> st.found[1].pos,
          groups |-> st.found[1].groups]
\* The search begins at position from, as that of a global expression does
\* after a match.
MatchFrom(items, s, from) ==
    MatchOf(Loop(LAMBDA st : [i |-> st.i + 1,
                              found |-> FirstThread(MatchItems(items, s, <<Thread(st.i)>>))],
                 LAMBDA st : st.found # <<>>,
                 [i |-> from, found |-> <<>>],
                 IF items[1].op = "start" THEN (IF from = 1 THEN 1 ELSE 0)
                 ELSE Len(s) + 2 - from))
Match(items, s) == MatchFrom(items, s, 1)
\* re.test(s)
Test(items, s) == Match(items, s).ok
\* match[g], a group that took part in the match
Captured(s, m, g) == SubSeq(s, m.groups[g].from, m.groups[g].to - 1)
\* match[0]
Matched(s, m) == SubSeq(s, m.index, m.next - 1)

\* s.replace(re, with): with flag g every match from the left is replaced by
\* what With makes of it (after an empty match the search moves on by one
\* character), without it the first match only.
ReplaceStep(items, s, With(_), st) ==
    LET m == MatchFrom(items, s, st.i)
    IN IF ~m.ok
       THEN [i |-> Len(s) + 2, out |-> st.out \o SubSeq(s, st.i, Len(s))]
       ELSE IF m.next > m.index
       THEN [i |-> m.next, out |-> st.out \o SubSeq(s, st.i, m.index - 1) \o With(m)]
       ELSE [i |-> m.next + 1,
             out |-> st.out \o SubSeq(s, st.i, m.index - 1) \o With(m)
                       \o SubSeq(s, m.index, IF m.index <= Len(s) THEN m.index ELSE Len(s))]
ReplaceAll(items, s, With(_)) ==
    Loop(LAMBDA st : ReplaceStep(items, s, With, st),
         LAMBDA st : st.i > Len(s) + 1,
         [i |-> 1, out |-> <<>>], Len(s) + 1).out
ReplaceFirst(items, s, With(_)) ==
    LET m == Match(items, s)
    IN IF m.ok THEN SubSeq(s, 1, m.index - 1) \o With(m) \o SubSeq(s, m.next, Len(s)) ELSE s

-----------------------------------------------------------------------------

(* ddl-parser.ts (src/unnamed/part_012) *)

\* An optional value: <<>> when it is null or unset, <<x>> when it is x.
None == <<>>
Some(x) == <<x>>

Space == Class(SpaceChars, FALSE)        \* \s
WordChar == Class(WordChars, FALSE)      \* \w
Quote == Class(QuoteChars, FALSE)        \* [`"']
Not(chars) == Class(chars, TRUE)         \* [^...]
AnyChar == Class({}, TRUE)               \* [\s\S]
Dot == Class({"\n", "\r"}, TRUE)         \* .
KeyOrIndex == Alt(<<<<Word(<<"k", "e", "y">>)>>, <<Word(<<"i", "n", "d", "e", "x">>)>>>>)      \* (?:KEY|INDEX)
QuotedWord(g) == <<Opt(Quote), Group(g, <<<<Plus(WordChar)>>>>), Opt(Quote)>>   \* [`"']?(\w+)[`"']?
Columns(g) == <<Exactly(<<"(">>), Group(g, <<<<Plus(Not({")"}))>>>>), Exactly(<<")">>)>>  \* \(([^)]+)\)

\* /CREATE\s+TABLE/i
CreateTableRe == <<Word(<<"c", "r", "e", "a", "t", "e">>), Plus(Space), Word(<<"t", "a", "b", "l", "e">>)>>
\* /CREATE\s+(UNIQUE\s+)?INDEX/i
CreateIndexRe ==
    <<Word(<<"c", "r", "e", "a", "t", "e">>), Plus(Space), Maybe(<<Word(<<"u", "n", "i", "q", "u", "e">>), Plus(Space)>>), Word(<<"i", "n", "d", "e", "x">>)>>
\* /CREATE\s+(UNIQUE\s+|FULLTEXT\s+|SPATIAL\s+)?INDEX\s+[`"']?(\w+)[`"']?\s+ON\s+[`"']?(\w+)[`"']?\s*\(([^)]+)\)/i
IndexStatementRe ==
    <<Word(<<"c", "r", "e", "a", "t", "e">>), Plus(Space),
      Maybe(<<Group(1, << <<Word(<<"u", "n", "i", "q", "u", "e">>), Plus(Space)>>, <<Word(<<"f", "u", "l", "l", "t", "e", "x", "t">>), Plus(Space)>>,
                          <<Word(<<"s", "p", "a", "t", "i", "a", "l">>), Plus(Space)>> >>)>>),
      Word(<<"i", "n", "d", "e", "x">>), Plus(Space)>>
    \o QuotedWord(2) \o <<Plus(Space), Word(<<"o", "n">>), Plus(Space)>> \o QuotedWord(3)
    \o <<Star(Space)>> \o Columns(4)
\* /CREATE\s+TABLE\s+(?:IF\s+NOT\s+EXISTS\s+)?[`"']?(\w+)[`"']?/i
TableNameRe ==
    CreateTableRe
    \o <<Plus(Space), Maybe(<<Word(<<"i", "f">>), Plus(Space), Word(<<"n", "o", "t">>), Plus(Space), Word(<<"e", "x", "i", "s", "t", "s">>), Plus(Space)>>)>>
    \o QuotedWord(1)
\* /CREATE\s+TABLE[^(]*\(([\s\S]+)\)[^)]*$/i
TableBodyRe ==
    CreateTableRe
    \o <<Star(Not({"("})), Exactly(<<"(">>), Group(1, <<<<Plus(AnyChar)>>>>), Exactly(<<")">>),
         Star(Not({")"})), AtEnd>>
\* /^(PRIMARY\s+KEY|UNIQUE\s+KEY|UNIQUE\s+INDEX|KEY|INDEX|FULLTEXT\s+KEY|FULLTEXT\s+INDEX|SPATIAL\s+KEY|SPATIAL\s+INDEX|CONSTRAINT)/i
IndexDefinitionRe ==
    <<AtStart,
      Group(1, << <<Word(<<"p", "r", "i", "m", "a", "r", "y">>), Plus(Space), Word(<<"k", "e", "y">>)>>,
                  <<Word(<<"u", "n", "i", "q", "u", "e">>), Plus(Space), Word(<<"k", "e", "y">>)>>,
                  <<Word(<<"u", "n", "i", "q", "u", "e">>), Plus(Space), Word(<<"i", "n", "d", "e", "x">>)>>,
                  <<Word(<<"k", "e", "y">>)>>,
                  <<Word(<<"i", "n", "d", "e", "x">>)>>,
                  <<Word(<<"f", "u", "l", "l", "t", "e", "x", "t">>), Plus(Space), Word(<<"k", "e", "y">>)>>,
                  <<Word(<<"f", "u", "l", "l", "t", "e", "x", "t">>), Plus(Space), Word(<<"i", "n", "d", "e", "x">>)>>,
                  <<Word(<<"s", "p", "a", "t", "i", "a", "l">>), Plus(Space), Word(<<"k", "e", "y">>)>>,
                  <<Word(<<"s", "p", "a", "t", "i", "a", "l">>), Plus(Space), Word(<<"i", "n", "d", "e", "x">>)>>,
                  <<Word(<<"c", "o", "n", "s", "t", "r", "a", "i", "n", "t">>)>> >>)>>
\* /^[`"']?\w+[`"']?\s+/i
FieldDefinitionRe == <<AtStart, Opt(Quote), Plus(WordChar), Opt(Quote), Plus(Space)>>
\* /^[`"']?(\w+)[`"']?\s+(.+)$/i
FieldNameRe == <<AtStart>> \o QuotedWord(1) \o <<Plus(Space), Group(2, <<<<Plus(Dot)>>>>), AtEnd>>
\* /^PRIMARY\s+KEY/i
PrimaryKeyRe == <<AtStart, Word(<<"p", "r", "i", "m", "a", "r", "y">>), Plus(Space), Word(<<"k", "e", "y">>)>>
\* /\(([^)]+)\)/
ColumnsRe == Columns(1)
\* /^UNIQUE\s+(KEY|INDEX)/i  and  /^FULLTEXT\s+(KEY|INDEX)/i  and  /^(KEY|INDEX)/i
UniqueRe == <<AtStart, Word(<<"u", "n", "i", "q", "u", "e">>), Plus(Space), KeyOrIndex>>
FulltextRe == <<AtStart, Word(<<"f", "u", "l", "l", "t", "e", "x", "t">>), Plus(Space), KeyOrIndex>>
KeyRe == <<AtStart, KeyOrIndex>>
\* /^UNIQUE\s+(?:KEY|INDEX)\s+[`"']?(\w+)[`"']?\s*\(([^)]+)\)/i, and the same of
\* FULLTEXT and of no first word
NamedIndexRe(first) ==
    <<AtStart>> \o first \o <<KeyOrIndex, Plus(Space)>> \o QuotedWord(1) \o <<Star(Space)>>
    \o Columns(2)
\* /[`"']?(\w+)[`"']?/
ColumnNameRe == QuotedWord(1)

\* parseIndexColumns: the word of each comma-separated piece, the pieces
\* without a word dropped.
ColumnOf(col, match) == IF match.ok THEN Captured(col, match, 1) ELSE <<>>
parseIndexColumns(columnsStr) ==
    SelectSeq([n \in 1..Len(Split(columnsStr, ",")) |->
                 ColumnOf(Trim(Split(columnsStr, ",")[n]),
                          Match(ColumnNameRe, Trim(Split(columnsStr, ",")[n])))],
              LAMBDA w : w # <<>>)

\* A TableIndex; missingColumns is optional.
TableIndex(type, name, columns) ==
    [type |-> type, name |-> name, columns |-> columns, missingColumns |-> None]

\* The IndexType of parseCreateIndex for the text of its first group.
IndexTypeOf(typeStr) ==
    IF typeStr = <<"U", "N", "I", "Q", "U", "E">> THEN "UNIQUE"
    ELSE IF typeStr = <<"F", "U", "L", "L", "T", "E", "X", "T">> THEN "FULLTEXT"
    ELSE IF typeStr = <<"S", "P", "A", "T", "I", "A", "L">> THEN "SPATIAL"
    ELSE "INDEX"
\* parseCreateIndex after its match: None (null) or Some StandaloneIndex.
StandaloneIndexOf(stmt, match) ==
    IF ~match.ok THEN None
    ELSE Some([tableName |-> Captured(stmt, match, 3),
               index |-> TableIndex(IndexTypeOf(toUpperCase(Trim(Captured(stmt, match, 1)))),
                                    Captured(stmt, match, 2),
                                    parseIndexColumns(Captured(stmt, match, 4)))])
parseCreateIndex(stmt) == StandaloneIndexOf(stmt, Match(IndexStatementRe, stmt))

-----------------------------------------------------------------------------

\* One turn of the loop of splitDefinitions, on the character at position st.i.
splitDefinitionsStep(content, st) ==
    LET char == content[st.i]
        next == [st EXCEPT !.i = @ + 1]
    IN IF st.inString
       THEN [next EXCEPT !.current = Append(@, char),
                         !.inString = ~(char = st.stringChar
                                        /\ (st.i = 1 \/ content[st.i - 1] # "\\"))]
       ELSE IF char \in {"'", "\"", Backtick}
       THEN [next EXCEPT !.inString = TRUE, !.stringChar = char, !.current = Append(@, char)]
       ELSE IF char = "("
       THEN [next EXCEPT !.depth = @ + 1, !.current = Append(@, char)]
       ELSE IF char = ")"
       THEN [next EXCEPT !.depth = @ - 1, !.current = Append(@, char)]
       ELSE IF char = "," /\ st.depth = 0
       THEN [next EXCEPT !.definitions = Append(@, Trim(st.current)), !.current = <<>>]
       ELSE [next EXCEPT !.current = Append(@, char)]
\* The definitions after the loop: what is left in current is the last of them.
splitDefinitionsEnd(end) ==
    IF Trim(end.current) # <<>> THEN Append(end.definitions, Trim(end.current))
    ELSE end.definitions
splitDefinitions(content) ==
    splitDefinitionsEnd(Loop(LAMBDA st : splitDefinitionsStep(content, st),
                             LAMBDA st : st.i > Len(content),
                             [i |-> 1, definitions |-> <<>>, current |-> <<>>, depth |-> 0,
                              inString |-> FALSE, stringChar |-> ""],
                             Len(content)))

\* def.replace(/\s+/g, ' '): every run of white space becomes one space.
CollapseSpaces(s) ==
    LET kept == SelectSeq([i \in 1..Len(s) |-> <<i, s[i]>>],
                          LAMBDA p : p[2] \notin SpaceChars
                                     \/ p[1] = 1 \/ s[p[1] - 1] \notin SpaceChars)
    IN [n \in 1..Len(kept) |-> IF kept[n][2] \in SpaceChars THEN " " ELSE kept[n][2]]
\* def.replace(/\s+/g, ' ').trim()
Normalize(def) == Trim(CollapseSpaces(def))

\* A TableField.  The model keeps the name and the indexes of a field; type,
\* nullable, defaultValue, autoIncrement, comment and isPrimaryKey are read from
\* the rest of the definition and enter no other part of the result.
TableField(name) == [name |-> name, indexes |-> <<>>]

\* parseField after its match: None (null) or Some TableField.
FieldOf(normalizedDef, nameMatch) ==
    IF ~nameMatch.ok THEN None ELSE Some(TableField(Captured(normalizedDef, nameMatch, 1)))
parseField(fieldDef) == FieldOf(Normalize(fieldDef), Match(FieldNameRe, Normalize(fieldDef)))

\* The type, name and columns parseInlineIndex reads from a definition.
InlineIndex(type, name, columns) == [type |-> type, name |-> name, columns |-> columns]
PrimaryIndexOf(normalizedDef, colMatch) ==
    InlineIndex("PRIMARY", <<"P", "R", "I", "M", "A", "R", "Y">>,
                IF colMatch.ok THEN parseIndexColumns(Captured(normalizedDef, colMatch, 1))
                ELSE <<>>)
NamedIndexOf(type, normalizedDef, nameMatch) ==
    IF nameMatch.ok
    THEN InlineIndex(type, Captured(normalizedDef, nameMatch, 1),
                     parseIndexColumns(Captured(normalizedDef, nameMatch, 2)))
    ELSE InlineIndex(type, <<>>, <<>>)
InlineIndexOf(normalizedDef) ==
    IF Test(PrimaryKeyRe, normalizedDef)
    THEN PrimaryIndexOf(normalizedDef, Match(ColumnsRe, normalizedDef))
    ELSE IF Test(UniqueRe, normalizedDef)
    THEN NamedIndexOf("UNIQUE", normalizedDef,
                      Match(NamedIndexRe(<<Word(<<"u", "n", "i", "q", "u", "e">>), Plus(Space)>>), normalizedDef))
    ELSE IF Test(FulltextRe, normalizedDef)
    THEN NamedIndexOf("FULLTEXT", normalizedDef,
                      Match(NamedIndexRe(<<Word(<<"f", "u", "l", "l", "t", "e", "x", "t">>), Plus(Space)>>), normalizedDef))
    ELSE IF Test(KeyRe, normalizedDef)
    THEN NamedIndexOf("INDEX", normalizedDef, Match(NamedIndexRe(<<>>), normalizedDef))
    ELSE InlineIndex("INDEX", <<>>, <<>>)
\* A parseInlineIndex that would return the index whatever its columns.
IndexWithoutCheck(found) == Some(TableIndex(found.type, found.name, found.columns))
\* if (columns.length === 0) return null
IndexOrNull(found) ==
    IF Len(found.columns) = 0 THEN None
    ELSE Some(TableIndex(found.type, found.name, found.columns))
\* parseInlineIndex: None (null) or Some TableIndex.
parseInlineIndex(indexDef) == IndexOrNull(InlineIndexOf(Normalize(indexDef)))

-----------------------------------------------------------------------------

\* A TableInfo (tableComment, which enters no other part of the result, left out).
TableInfo(tableName, fields, indexes) ==
    [tableName |-> tableName, fields |-> fields, indexes |-> indexes]
NoTable == TableInfo(<<>>, <<>>, <<>>)

\* A comparison of the columns with `name` that would tell the cases apart.
HasColumnExactCase(index, name) == \E c \in 1..Len(index.columns) : index.columns[c] = name
\* Whether the index has the column `name`, compared case-insensitively.
HasColumn(index, name) ==
    \E c \in 1..Len(index.columns) : toLowerCase(index.columns[c]) = toLowerCase(name)
\* The FieldIndex a field gets for an index it is a column of.
FieldIndex(index, field) ==
    [name |-> index.name, type |-> index.type,
     isFirst |-> toLowerCase(index.columns[1]) = toLowerCase(field.name)]
\* A check of the columns against the field names that would tell the cases apart.
MissingColumnsExactCase(index, fields) ==
    SelectSeq(index.columns, LAMBDA col : \A f \in 1..Len(fields) : fields[f].name # col)
\* The columns of the index that are no field of `fields`, in column order.
MissingColumns(index, fields) ==
    LET fieldNames == {toLowerCase(fields[f].name) : f \in 1..Len(fields)}
    IN SelectSeq(index.columns, LAMBDA col : toLowerCase(col) \notin fieldNames)

\* The loop of parseCreateTable over the definitions from position n on: the
\* fields and the indexes collected.
RECURSIVE collectDefinitions(_, _, _, _)
collectDefinitions(n, definitions, fields, indexes) ==
    IF n > Len(definitions) THEN [fields |-> fields, indexes |-> indexes]
    ELSE IF Trim(definitions[n]) = <<>>
    THEN collectDefinitions(n + 1, definitions, fields, indexes)
    ELSE IF Test(IndexDefinitionRe, Trim(definitions[n]))
    THEN collectDefinitions(n + 1, definitions, fields,
                            indexes \o parseInlineIndex(Trim(definitions[n])))
    ELSE IF Test(FieldDefinitionRe, Trim(definitions[n]))
    THEN collectDefinitions(n + 1, definitions, fields \o parseField(Trim(definitions[n])),
                            indexes)
    ELSE collectDefinitions(n + 1, definitions, fields, indexes)

\* The indexes list parseCreateTable gives a field: one entry per index the
\* field is a column of, in the order of `indexes`.
fieldIndexes(field, indexes) ==
    LET own == SelectSeq(indexes, LAMBDA index : HasColumn(index, field.name))
    IN [n \in 1..Len(own) |-> FieldIndex(own[n], field)]

\* The TableInfo parseCreateTable returns for the fields and indexes collected.
tableOf(tableName, found) ==
    TableInfo(tableName,
              [f \in 1..Len(found.fields) |->
                 [found.fields[f] EXCEPT
                    !.indexes = fieldIndexes(found.fields[f], found.indexes)]],
              [x \in 1..Len(found.indexes) |->
                 [found.indexes[x] EXCEPT
                    !.missingColumns = Some(MissingColumns(found.indexes[x], found.fields))]])
\* A parseCreateTable that would recover from a statement without a name or a
\* body with an empty table.
parseCreateTableLenient(ddl, tableNameMatch, contentMatch) ==
    IF ~tableNameMatch.ok \/ ~contentMatch.ok
    THEN [ok |-> TRUE, error |-> "", table |-> NoTable]
    ELSE [ok |-> TRUE, error |-> "",
          table |-> tableOf(Captured(ddl, tableNameMatch, 1),
                            collectDefinitions(1, splitDefinitions(Captured(ddl, contentMatch, 1)),
                                               <<>>, <<>>))]
\* parseCreateTable after its two matches: the error thrown (ok = FALSE), or the
\* TableInfo.
parseCreateTableOf(ddl, tableNameMatch, contentMatch) ==
    IF ~tableNameMatch.ok
    THEN [ok |-> FALSE, error |-> "no CREATE TABLE statement", table |-> NoTable]
    ELSE IF ~contentMatch.ok
    THEN [ok |-> FALSE, error |-> "no table body", table |-> NoTable]
    ELSE [ok |-> TRUE, error |-> "",
          table |-> tableOf(Captured(ddl, tableNameMatch, 1),
                            collectDefinitions(1, splitDefinitions(Captured(ddl, contentMatch, 1)),
                                               <<>>, <<>>))]
parseCreateTable(ddl) ==
    parseCreateTableOf(ddl, Match(TableNameRe, ddl), Match(TableBodyRe, ddl))

\* Property names that are canonical array indices ("0", "7", "42"), which a
\* JavaScript object enumerates first and in ascending numeric order.
IsIndexKey(key) ==
    /\ key # <<>> /\ \A i \in 1..Len(key) : key[i] \in DigitChars
    /\ (Len(key) > 1 => key[1] # "0")
DigitValue(c) == CHOOSE d \in 0..9 : ToString(d) = c
IndexKeyLess(a, b) ==
    \/ Len(a) < Len(b)
    \/ /\ Len(a) = Len(b)
       /\ \E i \in 1..Len(a) : /\ \A j \in 1..(i - 1) : a[j] = b[j]
                               /\ DigitValue(a[i]) < DigitValue(b[i])
\* obj[key] = value that would add an entry even when the key is there already.
SetPropertyAppending(entries, key, value) == Append(entries, [k |-> key, v |-> value])
\* obj[key] = value on the entries of an object: an existing key keeps its place,
\* a new index key goes among the index keys, any other new key goes last.
SetProperty(entries, key, value) ==
    IF \E i \in 1..Len(entries) : entries[i].k = key
    THEN [i \in 1..Len(entries) |->
             IF entries[i].k = key THEN [k |-> key, v |-> value] ELSE entries[i]]
    ELSE IF IsIndexKey(key)
    THEN LET before == SelectSeq(entries, LAMBDA e : IsIndexKey(e.k) /\ IndexKeyLess(e.k, key))
         IN before \o <<[k |-> key, v |-> value]>>
                   \o SubSeq(entries, Len(before) + 1, Len(entries))
    ELSE Append(entries, [k |-> key, v |-> value])
\* Whether obj[key] is an own property of the entries.
HasEntry(entries, key) == \E i \in 1..Len(entries) : entries[i].k = key
EntryOf(entries, key) == entries[CHOOSE i \in 1..Len(entries) : entries[i].k = key].v
\* Object.values(obj)
ObjectValues(entries) == [i \in 1..Len(entries) |-> entries[i].v]

\* ddl.replace(/--.*$/gm, ''): each "--" and the rest of its line are removed.
RECURSIVE StripLineComments(_)
StripLineComments(s) ==
    LET at == {i \in 1..(Len(s) - 1) : s[i] = "-" /\ s[i + 1] = "-"}
    IN IF at = {} THEN s
       ELSE LET from == Least(at)
                ends == {e \in from..Len(s) : s[e] \in {"\n", "\r"}}
            IN IF ends = {} THEN SubSeq(s, 1, from - 1)
               ELSE SubSeq(s, 1, from - 1) \o StripLineComments(SubSeq(s, Least(ends), Len(s)))
\* .replace(/\/\*[\s\S]*?\*\//g, ''): each "/*" up to the next "*/" is removed.
RECURSIVE StripBlockComments(_)
StripBlockComments(s) ==
    LET at == {i \in 1..(Len(s) - 1) : s[i] = "/" /\ s[i + 1] = "*"}
        ends == IF at = {} THEN {}
                ELSE {e \in (Least(at) + 2)..(Len(s) - 1) : s[e] = "*" /\ s[e + 1] = "/"}
    IN IF ends = {} THEN s
       ELSE SubSeq(s, 1, Least(at) - 1) \o StripBlockComments(SubSeq(s, Least(ends) + 2, Len(s)))

\* The statements of parseDDL: comments removed, split at ";", trimmed, the
\* empty ones dropped.
splitStatements(text) ==
    LET cleanDDL == StripBlockComments(StripLineComments(text))
        pieces == Split(cleanDDL, ";")
        trimmed == [n \in 1..Len(pieces) |-> Trim(pieces[n])]
    IN SelectSeq(trimmed, LAMBDA s : Len(s) > 0)

\* An attachment that would put the index in front of the table's indexes.
attachIndexInFront(table, index) ==
    [table EXCEPT
       !.indexes = <<[index EXCEPT !.missingColumns = Some(MissingColumns(index, table.fields))]>>
                   \o table.indexes,
       !.fields = [f \in 1..Len(table.fields) |->
                     IF HasColumn(index, table.fields[f].name)
                     THEN [table.fields[f] EXCEPT
                             !.indexes = Append(table.fields[f].indexes,
                                                FieldIndex(index, table.fields[f]))]
                     ELSE table.fields[f]]]
\* The table a CREATE INDEX statement's index is attached to: the index with its
\* missingColumns pushed on table.indexes, and its entry pushed on the indexes
\* of every field that is one of its columns.
attachIndex(table, index) ==
    LET checked == [index EXCEPT !.missingColumns = Some(MissingColumns(index, table.fields))]
    IN [table EXCEPT
          !.indexes = Append(table.indexes, checked),
          !.fields = [f \in 1..Len(table.fields) |->
                        IF HasColumn(index, table.fields[f].name)
                        THEN [table.fields[f] EXCEPT
                                !.indexes = Append(table.fields[f].indexes,
                                                   FieldIndex(index, table.fields[f]))]
                        ELSE table.fields[f]]]

\* A store that would keep the table under its name as written.
storeTableExactCase(tableEntries, tableResult) ==
    SetProperty(tableEntries, tableResult.tableName, tableResult)
\* tables[tableResult.tableName.toLowerCase()] = tableResult
storeTable(tableEntries, tableResult) ==
    SetProperty(tableEntries, toLowerCase(tableResult.tableName), tableResult)

-----------------------------------------------------------------------------

\* The loop of parseDDL over the statements from position n on, and what the
\* call comes to: thrown by parseCreateTable, or the result returned.
RECURSIVE parseDDLFrom(_, _, _, _)
parseDDLFrom(stmts, n, tableEntries, standalone) ==
    IF n > Len(stmts)
    THEN [thrown |-> FALSE,
          result |-> [tables |-> ObjectValues(tableEntries), standaloneIndexes |-> standalone]]
    ELSE IF Test(CreateTableRe, stmts[n])
    THEN IF parseCreateTable(stmts[n]).ok
         THEN parseDDLFrom(stmts, n + 1,
                           storeTable(tableEntries, parseCreateTable(stmts[n]).table), standalone)
         ELSE [thrown |-> TRUE, result |-> [tables |-> <<>>, standaloneIndexes |-> <<>>]]
    ELSE IF Test(CreateIndexRe, stmts[n]) /\ parseCreateIndex(stmts[n]) # None
    THEN IF HasEntry(tableEntries, toLowerCase(parseCreateIndex(stmts[n])[1].tableName))
         THEN parseDDLFrom(stmts, n + 1,
                           SetProperty(tableEntries,
                                       toLowerCase(parseCreateIndex(stmts[n])[1].tableName),
                                       attachIndex(EntryOf(tableEntries,
                                                           toLowerCase(parseCreateIndex(stmts[n])[1].tableName)),
                                                   parseCreateIndex(stmts[n])[1].index)),
                           standalone)
         ELSE parseDDLFrom(stmts, n + 1, tableEntries,
                           Append(standalone, parseCreateIndex(stmts[n])[1]))
    ELSE parseDDLFrom(stmts, n + 1, tableEntries, standalone)
\* parseDDL as a function of its text.
parseDDL(text) == parseDDLFrom(splitStatements(text), 1, <<>>, <<>>)

-----------------------------------------------------------------------------

(* php-parser.ts *)

\* The values of the PHP parser (PHPValue).  Their texts are sequences of
\* characters: p holds the characters of a string, the decimal form of a
\* number and the word of a literal; the keys of an object and the indexes of
\* an array are texts as well.
PHPString(s) == [t |-> "string", p |-> s, c |-> <<>>]
PHPNumber(decimal) == [t |-> "number", p |-> decimal, c |-> <<>>]
PHPBoolean(b) ==
    [t |-> "boolean", p |-> IF b THEN <<"t", "r", "u", "e">> ELSE <<"f", "a", "l", "s", "e">>, c |-> <<>>]
PHPNull == [t |-> "null", p |-> <<"n", "u", "l", "l">>, c |-> <<>>]
PHPObject(entries) == [t |-> "object", p |-> <<>>, c |-> entries]
\* n.toString() of a natural number
RECURSIVE Decimal(_)
Decimal(n) == IF n < 10 THEN <<ToString(n)>> ELSE Decimal(n \div 10) \o <<ToString(n % 10)>>
PHPArray(elems) ==
    [t |-> "array", p |-> <<>>,
     c |-> [i \in 1..Len(elems) |-> [k |-> Decimal(i - 1), v |-> elems[i]]]]

\* parseFloat(value) of an optional "-" and a run of digits and dots that
\* begins with a digit, as the decimal form of the number: the digits up to the
\* second dot count, zeros in front of the integer part and at the end of the
\* fraction do not.  (Short runs only: no exponent appears in the decimal form.)
parseFloat(value) ==
    LET negative == value[1] = "-"
        digits == IF negative THEN Tail(value) ELSE value
        dots == {i \in 1..Len(digits) : digits[i] = "."}
        dot == IF dots = {} THEN Len(digits) + 1 ELSE Least(dots)
        later == {i \in dots : i > dot}
        end == IF later = {} THEN Len(digits) + 1 ELSE Least(later)
        kept == {i \in 1..(dot - 1) : digits[i] # "0"}
        whole == IF kept = {} THEN <<"0">> ELSE SubSeq(digits, Least(kept), dot - 1)
        counted == {i \in (dot + 1)..(end - 1) : digits[i] # "0"}
        fraction == IF counted = {} THEN <<>>
                    ELSE <<".">> \o SubSeq(digits, dot + 1,
                                          CHOOSE i \in counted : \A j \in counted : j <= i)
    IN (IF negative THEN <<"-">> ELSE <<>>) \o whole \o fraction
\* n.toString() and String(n) of a number given by its decimal form (-0 reads "0")
NumberToString(decimal) == IF decimal = <<"-", "0">> THEN <<"0">> ELSE decimal

\* A replacement: the expression, whether it has flag g, and what a match is
\* replaced by (its own text in lower case when lower is set).
Replacement(re, global, with, lower) ==
    [re |-> re, global |-> global, with |-> with, lower |-> lower]
ReplaceBy(r, s) ==
    IF r.global
    THEN ReplaceAll(r.re, s, LAMBDA m : IF r.lower THEN toLowerCase(Matched(s, m)) ELSE r.with)
    ELSE ReplaceFirst(r.re, s, LAMBDA m : IF r.lower THEN toLowerCase(Matched(s, m)) ELSE r.with)
\* s.replace(...).replace(...)...: the replacements one after the other
ReplaceEach(replacements, s) ==
    Loop(LAMBDA st : [k |-> st.k + 1, s |-> ReplaceBy(replacements[st.k], st.s)],
         LAMBDA st : st.k > Len(replacements),
         [k |-> 1, s |-> s], Len(replacements)).s
\* /x/g -> y of a text for a text
Every(x, y) == Replacement(<<Exactly(x)>>, TRUE, y, FALSE)

\* unescapeString: six global replacements, one after the other
unescapeString(str) ==
    ReplaceEach(<<Every(<<"\\", "n">>, <<"\n">>), Every(<<"\\", "r">>, <<"\r">>), Every(<<"\\", "t">>, <<"\t">>),
                  Every(<<"\\", "'">>, <<"'">>), Every(<<"\\", "\"">>, <<"\"">>), Every(<<"\\", "\\">>, <<"\\">>)>>,
                str)

\* A Token; value holds the text of a STRING, the decimal form of a NUMBER, the
\* word of a LITERAL or an IDENTIFIER and is empty otherwise, quote is set for
\* a STRING only.
Token(type, value, quote) == [type |-> type, value |-> value, quote |-> quote]
singleCharTokens ==
    [char \in {"[", "]", "(", ")", ","} |->
        CASE char = "[" -> "LBRACKET" [] char = "]" -> "RBRACKET"
          [] char = "(" -> "LPAREN" [] char = ")" -> "RPAREN" [] char = "," -> "COMMA"]

\* The position of the quote that ends the string begun before position from
\* (a backslash takes the next character with it), or the end of the text.
stringEnd(str, from, quote) ==
    Loop(LAMBDA i : IF str[i] = "\\" /\ i + 1 <= Len(str) THEN i + 2 ELSE i + 1,
         LAMBDA i : i > Len(str) \/ str[i] = quote,
         from, Len(str))
\* The token of an identifier: a keyword or a name.
wordToken(value) ==
    IF value = <<"a", "r", "r", "a", "y">> THEN Token("ARRAY", <<>>, "")
    ELSE IF toLowerCase(value) \in {<<"t", "r", "u", "e">>, <<"f", "a", "l", "s", "e">>, <<"n", "u", "l", "l">>}
    THEN Token("LITERAL", toLowerCase(value), "")
    ELSE Token("IDENTIFIER", value, "")
\* One turn of the loop of tokenize at position st.i.
tokenizeStep(str, st) ==
    LET char == str[st.i]
        next == IF st.i < Len(str) THEN str[st.i + 1] ELSE "undefined"
    IN IF char \in SpaceChars THEN [st EXCEPT !.i = @ + 1]
       ELSE IF char \in {"\"", "'"}
       THEN LET end == stringEnd(str, st.i + 1, char)
            IN [i |-> end + 1,
                tokens |-> Append(st.tokens,
                                  Token("STRING", unescapeString(SubSeq(str, st.i + 1, end - 1)),
                                        char))]
       ELSE IF char \in DigitChars \/ (char = "-" /\ next \in DigitChars)
       THEN LET from == IF char = "-" THEN st.i + 1 ELSE st.i
                end == RunEnd(str, from, Class(DigitChars \cup {"."}, FALSE), 0)
            IN [i |-> end,
                tokens |-> Append(st.tokens,
                                  Token("NUMBER", parseFloat(SubSeq(str, st.i, end - 1)), ""))]
       ELSE IF char \in LetterChars \cup {"_"}
       THEN LET end == RunEnd(str, st.i, WordChar, 0)
            IN [i |-> end, tokens |-> Append(st.tokens, wordToken(SubSeq(str, st.i, end - 1)))]
       ELSE IF char = "=" /\ next = ">"
       THEN [i |-> st.i + 2, tokens |-> Append(st.tokens, Token("ARROW", <<>>, ""))]
       ELSE IF char \in DOMAIN singleCharTokens
       THEN [i |-> st.i + 1, tokens |-> Append(st.tokens, Token(singleCharTokens[char], <<>>, ""))]
       ELSE [st EXCEPT !.i = @ + 1]
tokenize(str) ==
    Loop(LAMBDA st : tokenizeStep(str, st), LAMBDA st : st.i > Len(str),
         [i |-> 1, tokens |-> <<>>], Len(str)).tokens

\* What a call comes to: a value returned (with the position reached in the
\* text or the tokens), or an error thrown.
Returned(value, pos) == [ok |-> TRUE, value |-> value, pos |-> pos, error |-> ""]
Thrown(error) == [ok |-> FALSE, value |-> PHPNull, pos |-> 0, error |-> error]

\* The messages of the two errors of parseValue (the second names the token).
UnexpectedEnd == "Error: unexpected end of input"
CannotParse(token) == "Error: cannot parse the value " \o token.type

\* The type of tokens[pos], pos counted from 1; "undefined" beyond the tokens.
TypeAt(tokens, pos) == IF pos <= Len(tokens) THEN tokens[pos].type ELSE "undefined"

\* String(keyValue) of a parsed key.  (An array is never parsed as a key: its
\* first token would be the arrow, where parseValue throws.)
String(keyValue) == IF keyValue.t = "number" THEN NumberToString(keyValue.p) ELSE keyValue.p

\* A result that would be a list whenever the keys stored are 0, 1, 2, ...
arrayResultByKeys(result, isIndexedArray, index) ==
    IF \A i \in 1..Len(result) : result[i].k = Decimal(i - 1)
    THEN PHPArray(ObjectValues(result))
    ELSE PHPObject(result)
\* The end of parseArray: the list of result[0], ..., result[index - 1] for an
\* indexed array, the object itself otherwise.
arrayResult(result, isIndexedArray, index) ==
    IF isIndexedArray
    THEN PHPArray([i \in 1..index |-> EntryOf(result, Decimal(i - 1))])
    ELSE PHPObject(result)

\* if (isIndexedArray) index++
advance(isIndexedArray, index) == IF isIndexedArray THEN index + 1 ELSE index

RECURSIVE parseValue(_, _)
RECURSIVE parseArray(_, _)
\* One turn of the loop of parseArray: the key when an arrow follows the next
\* token, the value, the store under the key, the counter, the comma.
parseElement(tokens, st) ==
    LET hasKey == st.pos + 1 <= Len(tokens) /\ tokens[st.pos + 1].type = "ARROW"
        keyValue == IF hasKey THEN parseValue(tokens, st.pos) ELSE Returned(PHPNull, st.pos - 1)
    IN IF ~keyValue.ok THEN [st EXCEPT !.error = keyValue.error]
       ELSE LET key == IF hasKey THEN String(keyValue.value) ELSE Decimal(st.index)
                isIndexedArray == st.isIndexedArray /\ ~hasKey
                value == parseValue(tokens, keyValue.pos + 1)
            IN IF ~value.ok THEN [st EXCEPT !.error = value.error]
               ELSE [pos |-> IF TypeAt(tokens, value.pos) = "COMMA" THEN value.pos + 1
                             ELSE value.pos,
                     result |-> SetProperty(st.result, key, value.value),
                     isIndexedArray |-> isIndexedArray,
                     index |-> advance(isIndexedArray, st.index),
                     error |-> ""]
parseArray(tokens, pos) ==
    LET from == IF TypeAt(tokens, pos) = "ARRAY"
                THEN (IF TypeAt(tokens, pos + 1) = "LPAREN" THEN pos + 2 ELSE pos + 1)
                ELSE IF TypeAt(tokens, pos) = "LBRACKET" THEN pos + 1 ELSE pos
        end == Loop(LAMBDA st : parseElement(tokens, st),
                    LAMBDA st : \/ st.error # ""
                                \/ TypeAt(tokens, st.pos) \in {"undefined", "RBRACKET", "RPAREN"},
                    [pos |-> from, result |-> <<>>, isIndexedArray |-> TRUE, index |-> 0,
                     error |-> ""],
                    Len(tokens))
    IN IF end.error # "" THEN Thrown(end.error)
       ELSE Returned(arrayResult(end.result, end.isIndexedArray, end.index),
                     IF TypeAt(tokens, end.pos) \in {"RBRACKET", "RPAREN"} THEN end.pos + 1
                     ELSE end.pos)
parseValue(tokens, pos) ==
    IF pos > Len(tokens) THEN Thrown(UnexpectedEnd)
    ELSE IF tokens[pos].type = "STRING" THEN Returned(PHPString(tokens[pos].value), pos + 1)
    ELSE IF tokens[pos].type = "NUMBER" THEN Returned(PHPNumber(tokens[pos].value), pos + 1)
    ELSE IF tokens[pos].type = "LITERAL"
    THEN Returned(IF tokens[pos].value = <<"t", "r", "u", "e">> THEN PHPBoolean(TRUE)
                  ELSE IF tokens[pos].value = <<"f", "a", "l", "s", "e">> THEN PHPBoolean(FALSE)
                  ELSE PHPNull, pos + 1)
    ELSE IF tokens[pos].type \in {"LBRACKET", "ARRAY"} THEN parseArray(tokens, pos)
    ELSE Thrown(CannotParse(tokens[pos]))
parseTokens(tokens) == parseValue(tokens, 1)
smartParsePHPArray(phpString) == parseTokens(tokenize(phpString))

\* /^\d+$/
DigitsRe == <<AtStart, Plus(Class(DigitChars, FALSE)), AtEnd>>
\* Number(key) of a key of digits
RECURSIVE Number(_)
Number(key) ==
    IF key = <<>> THEN 0
    ELSE 10 * Number(SubSeq(key, 1, Len(key) - 1)) + DigitValue(key[Len(key)])
\* '    '.repeat(indent)
Spaces(indent) == [i \in 1..(4 * indent) |-> " "]
\* The two replacements of a key, the five of a string.
escapeKey(key) == ReplaceEach(<<Every(<<"\\">>, <<"\\", "\\">>), Every(<<"'">>, <<"\\", "'">>)>>, key)
escapeString(obj) ==
    ReplaceEach(<<Every(<<"\\">>, <<"\\", "\\">>), Every(<<"'">>, <<"\\", "'">>), Every(<<"\n">>, <<"\\", "n">>),
                  Every(<<"\r">>, <<"\\", "r">>), Every(<<"\t">>, <<"\\", "t">>)>>,
                obj)
\* A check of the keys that would ask for the first number only to be 0.
isSequentialFromFirst(keys) == Number(keys[1]) = 0
\* Whether the keys, all of digits, are 0, 1, 2, ... when sorted as numbers.
isSequential(keys) == {Number(keys[i]) : i \in 1..Len(keys)} = 0..(Len(keys) - 1)
\* The key as it is written in front of its value.
quotedKeyOf(key, isNumericKeys, isSequentialKeys) ==
    IF isNumericKeys /\ isSequentialKeys THEN <<>>
    ELSE IF Test(DigitsRe, key) THEN key \o <<" ", "=", ">", " ">>
    ELSE <<"'">> \o escapeKey(key) \o <<"'", " ", "=", ">", " ">>
\* The lines of the entries: each indented, all but the last with a comma.
linesOf(written, indent) ==
    Concat([i \in 1..Len(written) |->
              Spaces(indent + 1) \o written[i]
                  \o (IF i < Len(written) THEN <<",">> ELSE <<>>) \o <<"\n">>],
           1, Len(written))

RECURSIVE convertToPHP(_, _)
convertObject(obj, keys, isNumericKeys, indent) ==
    <<"[">> \o <<"\n">>
      \o linesOf([i \in 1..Len(keys) |->
                    quotedKeyOf(keys[i], isNumericKeys, isNumericKeys /\ isSequential(keys))
                        \o convertToPHP(Get(obj, keys[i]), indent + 1)],
                 indent)
      \o Spaces(indent) \o <<"]">>
convertToPHP(obj, indent) ==
    IF IsArray(obj)
    THEN IF Length(obj) = 0 THEN <<"[", "]">>
         ELSE <<"[">> \o <<"\n">>
                \o linesOf([i \in 1..Length(obj) |-> convertToPHP(At(obj, i - 1), indent + 1)],
                           indent)
                \o Spaces(indent) \o <<"]">>
    ELSE IF TypeOf(obj) = "object" /\ obj # PHPNull
    THEN IF Len(ObjectKeys(obj)) = 0 THEN <<"[", "]">>
         ELSE convertObject(obj, ObjectKeys(obj),
                            \A i \in 1..Len(obj.c) : Test(DigitsRe, obj.c[i].k), indent)
    ELSE IF TypeOf(obj) = "string" THEN <<"'">> \o escapeString(obj.p) \o <<"'">>
    ELSE IF TypeOf(obj) = "boolean" THEN obj.p
    ELSE IF obj = PHPNull THEN <<"n", "u", "l", "l">>
    ELSE IF obj.p = <<"N", "a", "N">> THEN <<"N", "A", "N">>
    ELSE IF obj.p = <<"I", "n", "f", "i", "n", "i", "t", "y">> THEN <<"I", "N", "F">>
    ELSE IF obj.p = <<"-", "I", "n", "f", "i", "n", "i", "t", "y">> THEN <<"-", "I", "N", "F">>
    ELSE NumberToString(obj.p)

\* /<\?php|<\?|\?>/g, /^return\s+/, /^\$\w+\s*=\s*/ and /;$/
PhpTagRe == <<Alt(<<<<Exactly(<<"<", "?", "p", "h", "p">>)>>, <<Exactly(<<"<", "?">>)>>, <<Exactly(<<"?", ">">>)>>>>)>>
ReturnRe == <<AtStart, Exactly(<<"r", "e", "t", "u", "r", "n">>), Plus(Space)>>
AssignmentRe == <<AtStart, Exactly(<<"$">>), Plus(WordChar), Star(Space), Exactly(<<"=">>), Star(Space)>>
SemicolonRe == <<Exactly(<<";">>), AtEnd>>
Nothing(m) == <<>>
\* The input of parsePHPArray as the two parsers get it: without the PHP tags,
\* trimmed, without a leading return, a leading assignment and a last semicolon.
cleanInput(phpString) ==
    ReplaceEach(<<Replacement(ReturnRe, FALSE, <<>>, FALSE),
                  Replacement(AssignmentRe, FALSE, <<>>, FALSE),
                  Replacement(SemicolonRe, FALSE, <<>>, FALSE)>>,
                Trim(ReplaceAll(PhpTagRe, phpString, Nothing)))

\* One turn of the loop of balanceParentheses: the character is copied, a
\* parenthesis outside the strings as a bracket.
balanceStep(str, st) ==
    LET char == str[st.i]
        copied == [st EXCEPT !.i = @ + 1, !.result = Append(@, char)]
    IN IF st.escaped THEN [copied EXCEPT !.escaped = FALSE]
       ELSE IF char = "\\" THEN [copied EXCEPT !.escaped = TRUE]
       ELSE IF ~st.inString /\ char \in {"\"", "'"}
       THEN [copied EXCEPT !.inString = TRUE, !.stringChar = char]
       ELSE IF st.inString /\ char = st.stringChar
       THEN [copied EXCEPT !.inString = FALSE, !.stringChar = ""]
       ELSE IF st.inString THEN copied
       ELSE IF char = "(" THEN [copied EXCEPT !.result = Append(st.result, "[")]
       ELSE IF char = ")" THEN [copied EXCEPT !.result = Append(st.result, "]")]
       ELSE copied
balanceParentheses(str) ==
    Loop(LAMBDA st : balanceStep(str, st), LAMBDA st : st.i > Len(str),
         [i |-> 1, result |-> <<>>, inString |-> FALSE, stringChar |-> "", escaped |-> FALSE],
         Len(str)).result
\* /\barray\s*\(/g
ArrayRe == <<Boundary, Exactly(<<"a", "r", "r", "a", "y">>), Star(Space), Exactly(<<"(">>)>>
\* The replacement is repeated until it changes nothing; then the parentheses
\* are balanced.
replaceArrayStep(before, result) == [result |-> result, changed |-> before # result]
replaceArraySyntax(str) ==
    balanceParentheses(
        Loop(LAMBDA st : replaceArrayStep(st.result,
                                          ReplaceAll(ArrayRe, st.result, LAMBDA m : <<"[">>)),
             LAMBDA st : ~st.changed,
             [result |-> str, changed |-> TRUE], Len(str) + 1).result)

\* '[^'\\]*(?:\\.[^'\\]*)*' and "[^"\\]*(?:\\.[^"\\]*)*"
QuotedRe(quote) ==
    <<Exactly(<<quote>>), Star(Not({quote, "\\"})),
      Repeat(<<Exactly(<<"\\">>), One(Dot), Star(Not({quote, "\\"}))>>), Exactly(<<quote>>)>>
\* /((?:'...'|"..."|\w+|\d+))\s*=>\s*/g
ArrowRe ==
    <<Group(1, <<QuotedRe("'"), QuotedRe("\""), <<Plus(WordChar)>>,
                 <<Plus(Class(DigitChars, FALSE))>>>>),
      Star(Space), Exactly(<<"=", ">">>), Star(Space)>>
\* /^['"]/
QuoteStartRe == <<AtStart, One(Class({"'", "\""}, FALSE))>>
arrowReplacement(key) ==
    IF Test(DigitsRe, key) THEN key \o <<":", " ">>
    ELSE IF Test(QuoteStartRe, key) THEN key \o <<":", " ">>
    ELSE <<"\"">> \o key \o <<"\"", ":", " ">>
replaceArrowSyntax(str) ==
    ReplaceAll(ArrowRe, str, LAMBDA m : arrowReplacement(Captured(str, m, 1)))

\* One turn of the loop of replaceSingleQuotes: the character is copied, a
\* single quote outside the double-quoted strings as a double quote.
singleQuoteStep(str, st) ==
    LET char == str[st.i]
        copied == [st EXCEPT !.i = @ + 1, !.result = Append(@, char)]
    IN IF st.escaped THEN [copied EXCEPT !.escaped = FALSE]
       ELSE IF char = "\\" THEN [copied EXCEPT !.escaped = TRUE]
       ELSE IF char = "\"" THEN [copied EXCEPT !.inDoubleQuote = ~st.inDoubleQuote]
       ELSE IF st.inDoubleQuote THEN copied
       ELSE IF char = "'" THEN [copied EXCEPT !.result = Append(st.result, "\"")]
       ELSE copied
replaceSingleQuotes(str) ==
    Loop(LAMBDA st : singleQuoteStep(str, st), LAMBDA st : st.i > Len(str),
         [i |-> 1, result |-> <<>>, inDoubleQuote |-> FALSE, escaped |-> FALSE],
         Len(str)).result

\* /\b(true|false|null|TRUE|FALSE|NULL)\b/g, /\bINF\b/g, /\bNAN\b/g, /\b-INF\b/g
PhpLiteralRe ==
    <<Boundary,
      Group(1, <<<<Exactly(<<"t", "r", "u", "e">>)>>, <<Exactly(<<"f", "a", "l", "s", "e">>)>>, <<Exactly(<<"n", "u", "l", "l">>)>>,
                 <<Exactly(<<"T", "R", "U", "E">>)>>, <<Exactly(<<"F", "A", "L", "S", "E">>)>>, <<Exactly(<<"N", "U", "L", "L">>)>>>>),
      Boundary>>
InfRe == <<Boundary, Exactly(<<"I", "N", "F">>), Boundary>>
NanRe == <<Boundary, Exactly(<<"N", "A", "N">>), Boundary>>
MinusInfRe == <<Boundary, Exactly(<<"-", "I", "N", "F">>), Boundary>>
replacePhpValues(str) ==
    ReplaceEach(<<Replacement(PhpLiteralRe, TRUE, <<>>, TRUE),
                  Replacement(InfRe, TRUE, <<"\"", "I", "n", "f", "i", "n", "i", "t", "y", "\"">>, FALSE),
                  Replacement(NanRe, TRUE, <<"\"", "N", "a", "N", "\"">>, FALSE),
                  Replacement(MinusInfRe, TRUE, <<"\"", "-", "I", "n", "f", "i", "n", "i", "t", "y", "\"">>, FALSE)>>,
                str)

\* /(\w+)(\s*:\s*)/g
KeyColonRe ==
    <<Group(1, <<<<Plus(WordChar)>>>>),
      Group(2, <<<<Star(Space), Exactly(<<":">>), Star(Space)>>>>)>>
keyReplacement(match, key, colon) ==
    IF ~Test(DigitsRe, key) /\ ~Test(QuoteStartRe, key) THEN <<"\"">> \o key \o <<"\"">> \o colon
    ELSE match
fixKeyFormat(str) ==
    ReplaceAll(KeyColonRe, str,
               LAMBDA m : keyReplacement(Matched(str, m), Captured(str, m, 1),
                                         Captured(str, m, 2)))

\* One turn of the first loop of convertBrackets: the brackets outside the
\* strings are paired through the stack, and a colon outside the strings
\* marks the innermost open bracket.
bracketStep(str, st) ==
    LET char == str[st.i]
        next == [st EXCEPT !.i = @ + 1]
        depth == Len(st.stack)
    IN IF st.escaped THEN [next EXCEPT !.escaped = FALSE]
       ELSE IF char = "\\" THEN [next EXCEPT !.escaped = TRUE]
       ELSE IF char \in {"\"", "'"}
       THEN IF ~st.inString THEN [next EXCEPT !.inString = TRUE, !.stringChar = char]
            ELSE IF char = st.stringChar THEN [next EXCEPT !.inString = FALSE]
            ELSE next
       ELSE IF st.inString THEN next
       ELSE IF char = "["
       THEN [next EXCEPT !.stack = Append(@, [index |-> st.i, containsColon |-> FALSE])]
       ELSE IF char = "]"
       THEN IF depth > 0
            THEN [next EXCEPT !.stack = SubSeq(@, 1, depth - 1),
                              !.pairs = Append(@, [open |-> st.stack[depth].index,
                                                   close |-> st.i,
                                                   containsColon |-> st.stack[depth].containsColon])]
            ELSE next
       ELSE IF char = ":" /\ depth > 0
       THEN [next EXCEPT !.stack[depth].containsColon = TRUE]
       ELSE next
\* The brackets of every pair that holds a colon become braces.
convertBrackets(str) ==
    LET pairs == Loop(LAMBDA st : bracketStep(str, st), LAMBDA st : st.i > Len(str),
                      [i |-> 1, stack |-> <<>>, pairs |-> <<>>, inString |-> FALSE,
                       stringChar |-> "", escaped |-> FALSE],
                      Len(str)).pairs
        opens == {pairs[n].open : n \in {n \in 1..Len(pairs) : pairs[n].containsColon}}
        closes == {pairs[n].close : n \in {n \in 1..Len(pairs) : pairs[n].containsColon}}
    IN [i \in 1..Len(str) |->
          IF i \in opens THEN "{" ELSE IF i \in closes THEN "}" ELSE str[i]]

\* JSON.parse.  Its whitespace; the error it throws (one message stands for
\* all); the characters of the escapes \b and \f.
JsonSpace == Class({" ", "\t", "\n", "\r"}, FALSE)
SyntaxError == "SyntaxError: not valid JSON"
Backspace == "backspace"
FormFeed == "formfeed"
HexChars == DigitChars \cup Range(<<"a", "b", "c", "d", "e", "f", "A", "B", "C", "D", "E", "F">>)
\* -?(0|[1-9]\d*)(\.\d+)? at the start of the text from pos on (no text of the
\* model holds a number with an exponent)
JsonNumberRe ==
    <<AtStart, Opt(Class({"-"}, FALSE)),
      Alt(<<<<Exactly(<<"0">>)>>,
            <<One(Class(DigitChars \ {"0"}, FALSE)), Star(Class(DigitChars, FALSE))>>>>),
      Maybe(<<Exactly(<<".">>), Plus(Class(DigitChars, FALSE))>>)>>
\* The character after position pos, "" at the end of the text.
CharAt(s, pos) == IF pos >= 1 /\ pos <= Len(s) THEN s[pos] ELSE ""
SkipSpace(s, pos) == RunEnd(s, pos, JsonSpace, 0)
\* One turn over the characters between the quotes of a string: a character
\* is taken as it is, an escape as the character it stands for; a control
\* character and an unknown escape are errors.
jsonCharStep(s, st) ==
    LET char == s[st.i]
        after == CharAt(s, st.i + 1)
        escaped(c) == [st EXCEPT !.i = @ + 2, !.out = Append(@, c)]
    IN IF char \in {"\n", "\r", "\t", Backspace, FormFeed} THEN [st EXCEPT !.error = TRUE]
       ELSE IF char # "\\" THEN [st EXCEPT !.i = @ + 1, !.out = Append(@, char)]
       ELSE IF after \in {"\"", "\\", "/"} THEN escaped(after)
       ELSE IF after = "n" THEN escaped("\n")
       ELSE IF after = "r" THEN escaped("\r")
       ELSE IF after = "t" THEN escaped("\t")
       ELSE IF after = "b" THEN escaped(Backspace)
       ELSE IF after = "f" THEN escaped(FormFeed)
       ELSE IF after = "u" /\ \A k \in 2..5 : CharAt(s, st.i + k) \in HexChars
       THEN [st EXCEPT !.i = @ + 6,
                       !.out = Append(@, "\\u" \o s[st.i + 2] \o s[st.i + 3] \o s[st.i + 4]
                                                \o s[st.i + 5])]
       ELSE [st EXCEPT !.error = TRUE]
\* The string that begins with the quote at position pos and ends with the one
\* at position end.
jsonStringRead(read, end) ==
    IF read.error \/ read.i # end THEN Thrown(SyntaxError)
    ELSE Returned(PHPString(read.out), end + 1)
jsonStringTo(s, pos, end) ==
    IF end > Len(s) THEN Thrown(SyntaxError)
    ELSE jsonStringRead(Loop(LAMBDA st : jsonCharStep(s, st),
                             LAMBDA st : st.error \/ st.i >= end,
                             [i |-> pos + 1, out |-> <<>>, error |-> FALSE], Len(s)),
                        end)
jsonString(s, pos) == jsonStringTo(s, pos, stringEnd(s, pos + 1, "\""))

RECURSIVE jsonValue(_, _)
\* One turn over the elements of an array: a value, then a comma or the "]".
jsonElementOf(s, st, value, after) ==
    IF ~value.ok THEN [st EXCEPT !.error = TRUE]
    ELSE IF CharAt(s, after) = ","
    THEN [st EXCEPT !.pos = after + 1, !.items = Append(@, value.value)]
    ELSE IF CharAt(s, after) = "]"
    THEN [st EXCEPT !.pos = after + 1, !.items = Append(@, value.value), !.closed = TRUE]
    ELSE [st EXCEPT !.error = TRUE]
\* One turn over the members of an object: a string, a colon, a value, then a
\* comma or the "}"; the value is stored under the key of the string.
jsonMemberOf(s, st, key, value, after) ==
    IF ~value.ok THEN [st EXCEPT !.error = TRUE]
    ELSE IF CharAt(s, after) = ","
    THEN [st EXCEPT !.pos = after + 1, !.items = SetProperty(@, key.value.p, value.value)]
    ELSE IF CharAt(s, after) = "}"
    THEN [st EXCEPT !.pos = after + 1, !.items = SetProperty(@, key.value.p, value.value),
                    !.closed = TRUE]
    ELSE [st EXCEPT !.error = TRUE]
jsonMemberKey(s, from) ==
    IF CharAt(s, from) = "\"" THEN jsonString(s, from) ELSE Thrown(SyntaxError)
\* What follows a value: the position after the whitespace behind it.
jsonAfter(s, value) == IF value.ok THEN SkipSpace(s, value.pos) ELSE 0
jsonElementRead(s, st, value) == jsonElementOf(s, st, value, jsonAfter(s, value))
jsonElementStep(s, st) == jsonElementRead(s, st, jsonValue(s, st.pos))
jsonMemberRead(s, st, key, value) == jsonMemberOf(s, st, key, value, jsonAfter(s, value))
jsonMemberValue(s, st, key) ==
    jsonMemberRead(s, st, key,
                   IF key.ok /\ CharAt(s, SkipSpace(s, key.pos)) = ":"
                   THEN jsonValue(s, SkipSpace(s, key.pos) + 1)
                   ELSE Thrown(SyntaxError))
jsonMemberStep(s, st) == jsonMemberValue(s, st, jsonMemberKey(s, SkipSpace(s, st.pos)))
\* The array or the object whose bracket stands at position pos.
jsonContainerOf(array, read) ==
    IF read.error \/ ~read.closed THEN Thrown(SyntaxError)
    ELSE Returned(IF array THEN PHPArray(read.items) ELSE PHPObject(read.items), read.pos)
jsonContainer(s, pos, array) ==
    jsonContainerOf(array,
        IF CharAt(s, SkipSpace(s, pos + 1)) = (IF array THEN "]" ELSE "}")
        THEN [pos |-> SkipSpace(s, pos + 1) + 1, items |-> <<>>, closed |-> TRUE,
              error |-> FALSE]
        ELSE Loop(LAMBDA st : IF array THEN jsonElementStep(s, st) ELSE jsonMemberStep(s, st),
                  LAMBDA st : st.error \/ st.closed,
                  [pos |-> pos + 1, items |-> <<>>, closed |-> FALSE, error |-> FALSE],
                  Len(s)))
jsonWord(s, pos, word, value) ==
    IF SubSeq(s, pos, IF pos + Len(word) - 1 <= Len(s) THEN pos + Len(word) - 1 ELSE Len(s)) = word
    THEN Returned(value, pos + Len(word))
    ELSE Thrown(SyntaxError)
jsonNumber(s, pos, m) ==
    IF m.ok THEN Returned(PHPNumber(parseFloat(SubSeq(s, pos, pos + m.next - 2))), pos + m.next - 1)
    ELSE Thrown(SyntaxError)
\* The value that begins at position from or after the whitespace there.
jsonValueAt(s, pos) ==
    IF CharAt(s, pos) \in {"[", "{"} THEN jsonContainer(s, pos, CharAt(s, pos) = "[")
    ELSE IF CharAt(s, pos) = "\"" THEN jsonString(s, pos)
    ELSE IF CharAt(s, pos) \in {"t", "f", "n"}
    THEN jsonWord(s, pos,
                  CASE CharAt(s, pos) = "t" -> <<"t", "r", "u", "e">> [] CharAt(s, pos) = "f" -> <<"f", "a", "l", "s", "e">>
                    [] CharAt(s, pos) = "n" -> <<"n", "u", "l", "l">>,
                  CASE CharAt(s, pos) = "t" -> PHPBoolean(TRUE)
                    [] CharAt(s, pos) = "f" -> PHPBoolean(FALSE)
                    [] CharAt(s, pos) = "n" -> PHPNull)
    ELSE jsonNumber(s, pos, Match(JsonNumberRe, SubSeq(s, pos, Len(s))))
jsonValue(s, from) == jsonValueAt(s, SkipSpace(s, from))
\* JSON.parse(text): the one value of the text, nothing but whitespace after it.
JsonParseOf(text, value) ==
    IF value.ok /\ SkipSpace(text, value.pos) = Len(text) + 1 THEN value
    ELSE Thrown(SyntaxError)
JsonParse(text) == JsonParseOf(text, jsonValue(text, 1))

\* simpleParsePHPArray: the five rewritings, the brackets, JSON.parse
simpleRewrite(phpString) ==
    convertBrackets(fixKeyFormat(replacePhpValues(replaceSingleQuotes(
        replaceArrowSyntax(replaceArraySyntax(phpString))))))
simpleParsePHPArray(phpString) == JsonParse(simpleRewrite(phpString))








-----------------------------------------------------------------------------
(* The runs: one specification for each of the three algorithms *)

NoResult == [isEqual |-> FALSE, diffs |-> <<>>]

\* No call of compareJson is modelled.
IdleDiff ==
    /\ oldJson = Null /\ newJson = Null /\ mode = "loose"
    /\ diffDone = TRUE /\ diffResult = NoResult

NoDdlResult == [tables |-> <<>>, standaloneIndexes |-> <<>>]

\* No call of parseDDL is modelled.
IdleDdl ==
    /\ ddlText = <<>> /\ ddlPc = "returned" /\ statements = <<>> /\ stmtIdx = 1
    /\ tables = <<>> /\ standaloneIndexes = <<>> /\ ddlError = "" /\ ddlResult = NoDdlResult
    /\ ddlParts = None

\* No call of convertToPHP or parsePHPArray is modelled.
IdlePhp ==
    /\ phpValue = None /\ phpInput = <<>> /\ phpPc = "returned" /\ cleanString = <<>>
    /\ smartResult = None /\ simpleResult = None /\ phpResult = None /\ phpLiteral = None

(* The arguments compareJson is applied to *)

MaxLen == 2       \* longest array among the arguments' innermost containers
MaxWrap == 1      \* containers wrapped around both arguments

Modes == {"strict", "loose"}
Keys == {"a", "b", "toString"}
Leaves == {Num(1), Num(2)}

KeySeqs ==
    {ks \in UNION {[1..n -> Keys] : n \in 0..Cardinality(Keys)} :
        \A i, j \in 1..Len(ks) : i # j => ks[i] # ks[j]}
ObjectsOver(S) ==
    UNION {{Obj([i \in 1..Len(ks) |-> [k |-> ks[i], v |-> vs[i]]]) :
               vs \in [1..Len(ks) -> S]} : ks \in KeySeqs}
ArraysOver(S) == UNION {{Arr(es) : es \in [1..n -> S]} : n \in 0..MaxLen}

\* The innermost values: primitives, and objects and arrays of numbers.
Inner ==
    Leaves \cup {Null, Str("1"), Bool(TRUE)} \cup ObjectsOver(Leaves) \cup ArraysOver(Leaves)

\* A wrapping puts a value under key "a" of an object or at index 0 of an array.
WrapSeqs == UNION {[1..n -> {"key", "index"}] : n \in 0..MaxWrap}
RECURSIVE WrapAll(_, _)
WrapAll(ws, x) ==
    IF ws = <<>> THEN x
    ELSE LET y == WrapAll(Tail(ws), x)
         IN IF Head(ws) = "key" THEN Obj(<<[k |-> "a", v |-> y]>>) ELSE Arr(<<y>>)

InitDiff ==
    /\ IdleDdl /\ IdlePhp
    /\ \E x \in Inner, y \in Inner, ws \in WrapSeqs :
          /\ oldJson = WrapAll(ws, x)
          /\ newJson = WrapAll(ws, y)
    /\ mode \in Modes
    /\ diffDone = FALSE
    /\ diffResult = NoResult

\* compareJson(oldJson, newJson, mode) is called and returns.
CompareJson ==
    /\ ~diffDone
    /\ diffResult' = compareJson(oldJson, newJson, mode)
    /\ diffDone' = TRUE
    /\ UNCHANGED <<oldJson, newJson, mode, ddlVars, phpVars>>

NextDiff == CompareJson

SpecDiff == InitDiff /\ [][NextDiff]_vars

-----------------------------------------------------------------------------
(* The texts parseDDL is applied to, and its run *)

MaxStmts == 3     \* statements in the text given to parseDDL

\* The pieces the texts are made of: two definitions of one table (the second
\* with comments and the name in another case), another table, an index on the
\* first table, an index statement parseCreateIndex rejects, a statement of
\* another kind after an empty one, and a CREATE TABLE without name and body.
StatementPool ==
    << <<"C", "R", "E", "A", "T", "E", " ", "T", "A", "B", "L", "E", " ", "u", "s", "e", "r", "s", " ", "(", "i", "d", " ", "I", "N", "T", ",", " ", "n", "a", "m", "e", " ", "V", "A", "R", "C", "H", "A", "R", "(", "9", ")", ",", " ", "K", "E", "Y", " ", "i", "d", "x", "_", "n", " ", "(", "n", "a", "m", "e", ",", " ", "i", "d", ")", ")">>,
       <<"-", "-", " ", "t", "w", "o", "\n", "c", "r", "e", "a", "t", "e", " ", "t", "a", "b", "l", "e", " ", Backtick, "U", "s", "e", "r", "s", Backtick, " ", "(", "I", "D", " ", "i", "n", "t", " ", "/", "*", " ", "x", " ", "*", "/", ",", " ", "U", "N", "I", "Q", "U", "E", " ", "K", "E", "Y", " ", "u", "k", " ", "(", "i", "d", ",", " ", "z", "i", "p", ")", ")">>,
       <<"C", "R", "E", "A", "T", "E", " ", "T", "A", "B", "L", "E", " ", "t", "2", " ", "(", "a", " ", "I", "N", "T", ")">>,
       <<"C", "R", "E", "A", "T", "E", " ", "U", "N", "I", "Q", "U", "E", " ", "I", "N", "D", "E", "X", " ", "i", "2", " ", "O", "N", " ", "U", "S", "E", "R", "S", " ", "(", "I", "D", ",", " ", "n", "a", "m", "e", ")">>,
       <<"C", "R", "E", "A", "T", "E", " ", "I", "N", "D", "E", "X", " ", "b", "a", "d", " ", "O", "N", " ", "(", "a", ")">>,
       <<";", "D", "R", "O", "P", " ", "T", "A", "B", "L", "E", " ", "t", "2">>,
       <<"C", "R", "E", "A", "T", "E", " ", "T", "A", "B", "L", "E">> >>

\* The statements picked, each followed by ";" and a line break.
RECURSIVE JoinStatements(_)
JoinStatements(picked) ==
    IF picked = <<>> THEN <<>>
    ELSE StatementPool[Head(picked)] \o <<";", "\n">> \o JoinStatements(Tail(picked))

InitDdl ==
    /\ IdleDiff /\ IdlePhp
    /\ \E picked \in UNION {[1..n -> 1..Len(StatementPool)] : n \in 0..MaxStmts} :
          ddlText = JoinStatements(picked)
    /\ ddlPc = "called"
    /\ statements = <<>> /\ stmtIdx = 1
    /\ tables = <<>> /\ standaloneIndexes = <<>>
    /\ ddlError = "" /\ ddlResult = NoDdlResult
    /\ ddlParts = None

\* parseDDL up to its loop: the comments are removed and the statements split.
SplitStatements ==
    /\ ddlPc = "called"
    /\ statements' = splitStatements(ddlText)
    /\ ddlPc' = "loop"
    /\ UNCHANGED <<ddlText, ddlParts, stmtIdx, tables, standaloneIndexes, ddlError, ddlResult, diffVars, phpVars>>

\* One turn of the loop on a CREATE TABLE statement: the table is stored under
\* its lower-cased name, or parseCreateTable throws and parseDDL with it.
ProcessCreateTable ==
    /\ ddlPc = "loop" /\ stmtIdx <= Len(statements)
    /\ Test(CreateTableRe, statements[stmtIdx])
    /\ LET tableResult == parseCreateTable(statements[stmtIdx])
       IN IF tableResult.ok
          THEN /\ tables' = storeTable(tables, tableResult.table)
               /\ stmtIdx' = stmtIdx + 1
               /\ UNCHANGED <<ddlPc, ddlError>>
          ELSE /\ ddlPc' = "thrown"
               /\ ddlError' = tableResult.error
               /\ UNCHANGED <<tables, stmtIdx>>
    /\ UNCHANGED <<ddlText, ddlParts, statements, standaloneIndexes, ddlResult, diffVars, phpVars>>

\* One turn of the loop on a CREATE INDEX statement: nothing when
\* parseCreateIndex returns null; else the index is attached to the table of
\* that name when the tables hold it, and recorded as standalone when not.
ProcessCreateIndex ==
    /\ ddlPc = "loop" /\ stmtIdx <= Len(statements)
    /\ ~Test(CreateTableRe, statements[stmtIdx])
    /\ Test(CreateIndexRe, statements[stmtIdx])
    /\ LET indexResult == parseCreateIndex(statements[stmtIdx])
       IN IF indexResult = None
          THEN UNCHANGED <<tables, standaloneIndexes>>
          ELSE LET tableName == toLowerCase(indexResult[1].tableName)
               IN IF HasEntry(tables, tableName)
                  THEN /\ tables' = SetProperty(tables, tableName,
                                        attachIndex(EntryOf(tables, tableName),
                                                    indexResult[1].index))
                       /\ UNCHANGED standaloneIndexes
                  ELSE /\ standaloneIndexes' = Append(standaloneIndexes, indexResult[1])
                       /\ UNCHANGED tables
    /\ stmtIdx' = stmtIdx + 1
    /\ UNCHANGED <<ddlText, ddlParts, ddlPc, statements, ddlError, ddlResult, diffVars, phpVars>>

\* One turn of the loop on any other statement: nothing happens.
SkipStatement ==
    /\ ddlPc = "loop" /\ stmtIdx <= Len(statements)
    /\ ~Test(CreateTableRe, statements[stmtIdx])
    /\ ~Test(CreateIndexRe, statements[stmtIdx])
    /\ stmtIdx' = stmtIdx + 1
    /\ UNCHANGED <<ddlText, ddlParts, ddlPc, statements, tables, standaloneIndexes, ddlError, ddlResult,
                   diffVars, phpVars>>

\* After the last statement parseDDL returns the tables and the standalone indexes.
ReturnResult ==
    /\ ddlPc = "loop" /\ stmtIdx > Len(statements)
    /\ ddlResult' = [tables |-> ObjectValues(tables), standaloneIndexes |-> standaloneIndexes]
    /\ ddlPc' = "returned"
    /\ UNCHANGED <<ddlText, ddlParts, statements, stmtIdx, tables, standaloneIndexes, ddlError, diffVars, phpVars>>

Init == InitDdl
Next ==
    \/ SplitStatements
    \/ ProcessCreateTable
    \/ ProcessCreateIndex
    \/ SkipStatement
    \/ ReturnResult

Spec == Init /\ [][Next]_vars

-----------------------------------------------------------------------------

(* The texts parseDDL is applied to that hold one table definition written
   from column and index definitions, among other statements *)

MaxDefs == 2      \* definitions in the body of the table

\* The definitions the body of the table is written from: each with the name
\* of the column it declares (none for a definition that declares no column)
\* and whether it is a definition the parser drops: three columns, two of them
\* with a name that begins with the letters of an index keyword; an index; a
\* spatial index, a constraint and an index without columns.
Definition(text, column, dropped) == [text |-> text, column |-> column, dropped |-> dropped]
DefinitionPool ==
    << Definition(<<"i", "d", " ", "I", "N", "T">>, Some(<<"i", "d">>), FALSE),
       Definition(<<"k", "e", "y", "_", "n", "a", "m", "e", " ", "I", "N", "T">>, Some(<<"k", "e", "y", "_", "n", "a", "m", "e">>), FALSE),
       Definition(<<"i", "n", "d", "e", "x", "_", "n", "o", " ", "I", "N", "T">>, Some(<<"i", "n", "d", "e", "x", "_", "n", "o">>), FALSE),
       Definition(<<"K", "E", "Y", " ", "k", " ", "(", "i", "d", ")">>, None, FALSE),
       Definition(<<"S", "P", "A", "T", "I", "A", "L", " ", "K", "E", "Y", " ", "s", "p", " ", "(", "i", "d", ")">>, None, TRUE),
       Definition(<<"C", "O", "N", "S", "T", "R", "A", "I", "N", "T", " ", "c", " ", "U", "N", "I", "Q", "U", "E", " ", "(", "i", "d", ")">>, None, TRUE),
       Definition(<<"K", "E", "Y", " ", "z", " ", "(", " ", ")">>, None, TRUE) >>
DefinitionSeqs == UNION {[1..n -> 1..Len(DefinitionPool)] : n \in 1..MaxDefs}

\* The statements around the table definition, by kind: indexes of the four
\* types on the table, a CREATE INDEX statement without columns, a CREATE TABLE
\* statement without a name and one without a body.
StatementOf(kind) ==
    CASE kind = "fulltext" -> <<"C", "R", "E", "A", "T", "E", " ", "F", "U", "L", "L", "T", "E", "X", "T", " ", "I", "N", "D", "E", "X", " ", "f", "t", " ", "O", "N", " ", "t", " ", "(", "i", "d", ")">>
      [] kind = "spatial" -> <<"c", "r", "e", "a", "t", "e", " ", "s", "p", "a", "t", "i", "a", "l", " ", "i", "n", "d", "e", "x", " ", "s", "x", " ", "o", "n", " ", "T", " ", "(", "i", "d", ")">>
      [] kind = "unique" -> <<"C", "R", "E", "A", "T", "E", " ", "U", "N", "I", "Q", "U", "E", " ", "I", "N", "D", "E", "X", " ", "u", " ", "O", "N", " ", "t", " ", "(", "k", "e", "y", "_", "n", "a", "m", "e", ",", " ", "i", "d", ")">>
      [] kind = "plain" -> <<"C", "R", "E", "A", "T", "E", " ", "I", "N", "D", "E", "X", " ", "p", " ", "O", "N", " ", "t", " ", "(", "i", "d", ")">>
      [] kind = "malformed" -> <<"C", "R", "E", "A", "T", "E", " ", "I", "N", "D", "E", "X", " ", "m", " ", "O", "N", " ", "t">>
      [] kind = "noName" -> <<"C", "R", "E", "A", "T", "E", " ", "T", "A", "B", "L", "E", " ", "(", "x", " ", "I", "N", "T", ")">>
      [] kind = "noBody" -> <<"C", "R", "E", "A", "T", "E", " ", "T", "A", "B", "L", "E", " ", "t", "3">>
\* The statements of a text, by kind, "table" standing for the table definition.
Frames ==
    { <<"table">>, <<"table", "fulltext">>, <<"table", "spatial">>, <<"fulltext", "table">>,
      <<"table", "unique">>, <<"plain", "table">>, <<"table", "malformed">>,
      <<"table", "noName">>, <<"noBody", "table">> }

\* The CREATE TABLE statement of the definitions picked.
TableStatement(defs) ==
    <<"C", "R", "E", "A", "T", "E", " ", "T", "A", "B", "L", "E", " ", "t", " ", "(">>
      \o Concat([i \in 1..Len(defs) |->
                   (IF i > 1 THEN <<",", " ">> ELSE <<>>) \o DefinitionPool[defs[i]].text],
                1, Len(defs))
      \o <<")">>
\* The text of a frame around the definitions picked: each statement followed
\* by ";" and a line break.
FrameText(frame, defs) ==
    Concat([i \in 1..Len(frame) |->
              (IF frame[i] = "table" THEN TableStatement(defs) ELSE StatementOf(frame[i]))
                 \o <<";", "\n">>],
           1, Len(frame))

InitTable ==
    /\ IdleDiff /\ IdlePhp
    /\ \E frame \in Frames, defs \in DefinitionSeqs :
          /\ ddlParts = Some([frame |-> frame, defs |-> defs])
          /\ ddlText = FrameText(frame, defs)
    /\ ddlPc = "called"
    /\ statements = <<>> /\ stmtIdx = 1
    /\ tables = <<>> /\ standaloneIndexes = <<>>
    /\ ddlError = "" /\ ddlResult = NoDdlResult

SpecTable == InitTable /\ [][Next]_vars

-----------------------------------------------------------------------------

(* The values convertToPHP and the texts parsePHPArray are applied to, and their run *)

MaxChars == 2     \* characters of a string converted
MaxItems == 2     \* elements of a list, keys of a map converted
MaxElems == 3     \* elements of an array literal parsed

\* The strings: of a letter, the letter n, the backslash, the two quotes, the
\* line break and the tab.
StringChars == {"a", "n", "\\", "'", "\"", "\n", "\t"}
Strings == UNION {[1..n -> StringChars] : n \in 0..MaxChars}
\* The numbers, by their decimal form (the last is 10^21).
Numbers == {<<"0">>, <<"7">>, <<"-", "1", ".", "5">>, <<"1", "0", "0">>, <<"1", "e", "+", "2", "1">>}
Scalars ==
    {PHPString(s) : s \in Strings} \cup {PHPNumber(d) : d \in Numbers}
        \cup {PHPBoolean(TRUE), PHPBoolean(FALSE), PHPNull}
\* What the lists and maps hold: scalars, the empty list and map, a list and a map.
Items ==
    {PHPString(<<"a">>), PHPNumber(<<"7">>), PHPNull, PHPArray(<<>>),
     PHPArray(<<PHPString(<<"\t">>)>>), PHPObject(<<[k |-> <<"a">>, v |-> PHPBoolean(TRUE)]>>)}
Lists == UNION {{PHPArray(es) : es \in [1..n -> Items]} : n \in 0..MaxItems}
\* The keys of the maps, in the order in which an object lists them: the
\* index keys ascending, then the others as they were inserted.
MapKeys == {<<"0">>, <<"1">>, <<"5">>, <<"a">>, <<"i", "t", "'", "s">>}
MapKeySeqs ==
    {ks \in UNION {[1..n -> MapKeys] : n \in 0..MaxItems} :
        \A i, j \in 1..Len(ks) :
            i < j => /\ ks[i] # ks[j]
                     /\ ~(IsIndexKey(ks[j]) /\ ~IsIndexKey(ks[i]))
                     /\ (IsIndexKey(ks[i]) /\ IsIndexKey(ks[j]) => IndexKeyLess(ks[i], ks[j]))}
Maps ==
    UNION {{PHPObject([i \in 1..Len(ks) |-> [k |-> ks[i], v |-> vs[i]]]) :
               vs \in [1..Len(ks) -> Items]} : ks \in MapKeySeqs}
Values == Scalars \cup Lists \cup Maps

\* The elements array literals are written from: each with the text of its key
\* and the property name the key stands for (none for an element without
\* "=>"), the text of its value and the value that text stands for.  The last
\* has a bare word for a key.
Element(key, name, text, value) == [key |-> key, name |-> name, text |-> text, value |-> value]
ElementPool ==
    << Element(None, None, <<"'", "b", "'">>, PHPString(<<"b">>)),
       Element(None, None, <<"'", "c", "'">>, PHPString(<<"c">>)),
       Element(None, None, <<"[", "7", "]">>, PHPArray(<<PHPNumber(<<"7">>)>>)),
       Element(Some(<<"5">>), Some(<<"5">>), <<"'", "a", "'">>, PHPString(<<"a">>)),
       Element(Some(<<"0">>), Some(<<"0">>), <<"'", "z", "'">>, PHPString(<<"z">>)),
       Element(Some(<<"'", "k", "'">>), Some(<<"k">>),
               <<"[", "1", " ", "=", ">", " ", "'", "y", "'", "]">>,
               PHPObject(<<[k |-> <<"1">>, v |-> PHPString(<<"y">>)]>>)),
       Element(Some(<<"f", "o", "o">>), Some(<<"f", "o", "o">>), <<"1">>, PHPNumber(<<"1">>)) >>
ElementSeqs == UNION {[1..n -> 1..Len(ElementPool)] : n \in 0..MaxElems}
ElementText(e) == IF e.key = None THEN e.text ELSE e.key[1] \o <<" ", "=", ">", " ">> \o e.text
\* The array literal of the elements picked, in the short syntax or the long.
Syntaxes == {"short", "long"}
Literal(picked, syntax) ==
    (IF syntax = "short" THEN <<"[">> ELSE <<"a", "r", "r", "a", "y", "(">>)
      \o Concat([i \in 1..Len(picked) |->
                   (IF i > 1 THEN <<",", " ">> ELSE <<>>) \o ElementText(ElementPool[picked[i]])],
                1, Len(picked))
      \o (IF syntax = "short" THEN <<"]">> ELSE <<")">>)
\* What stands around the literal in the text: nothing, a PHP file that
\* returns it, an assignment.
Wrappings == {"none", "return", "assignment"}
Wrapped(literal, wrapping) ==
    CASE wrapping = "none" -> literal
      [] wrapping = "return" -> <<"<", "?", "p", "h", "p", "\n", "r", "e", "t", "u", "r", "n", " ">> \o literal \o <<";", "\n", "?", ">">>
      [] wrapping = "assignment" -> <<"$", "c", "o", "n", "f", "i", "g", " ", "=", " ">> \o literal \o <<";">>
\* Texts that are no array literal: the empty text, a constant, a literal cut short.
OtherTexts == {<<>>, <<"I", "N", "F">>, <<"[", "1", ",", " ", "2">>}

NoCall ==
    /\ cleanString = <<>> /\ smartResult = None /\ simpleResult = None /\ phpResult = None
InitPhp ==
    /\ IdleDiff /\ IdleDdl
    /\ \/ /\ phpPc = "convert"
          /\ \E v \in Values : phpValue = Some(v)
          /\ phpInput = <<>>
          /\ phpLiteral = None
       \/ /\ phpPc = "called"
          /\ phpValue = None
          /\ \/ \E picked \in ElementSeqs, syntax \in Syntaxes, wrapping \in Wrappings :
                   /\ Len(picked) > 1 => wrapping = "none"
                   /\ Len(picked) > 2 => syntax = "short"
                   /\ phpInput = Wrapped(Literal(picked, syntax), wrapping)
                   /\ phpLiteral = Some([picked |-> picked, syntax |-> syntax])
             \/ phpInput \in OtherTexts /\ phpLiteral = None
    /\ NoCall

\* convertToPHP(value) is called; what it returns is given to parsePHPArray.
ConvertToPHP ==
    /\ phpPc = "convert"
    /\ phpInput' = convertToPHP(phpValue[1], 0)
    /\ phpPc' = "called"
    /\ UNCHANGED <<phpValue, cleanString, smartResult, simpleResult, phpResult, phpLiteral, diffVars,
                   ddlVars>>

\* parsePHPArray up to its try: the input is cleaned.
CleanInput ==
    /\ phpPc = "called"
    /\ cleanString' = cleanInput(phpInput)
    /\ phpPc' = "try"
    /\ UNCHANGED <<phpValue, phpInput, smartResult, simpleResult, phpResult, phpLiteral, diffVars,
                   ddlVars>>

\* A catch block that throws again what it caught when simpleParsePHPArray
\* throws as well.
outcomeOfFirstError(smart, simple) == IF simple.ok THEN simple ELSE smart
\* What parsePHPArray comes to in its catch block: what simpleParsePHPArray
\* returns or throws there.
outcomeOfCatch(smart, simple) == simple

\* The try block: smartParsePHPArray returns, and parsePHPArray with it, or it
\* throws and the catch block is entered.
SmartParseTo(smart) ==
    /\ smartResult' = Some(smart)
    /\ IF smart.ok
       THEN phpResult' = Some(smart) /\ phpPc' = "returned"
       ELSE phpPc' = "catch" /\ UNCHANGED phpResult
SmartParse ==
    /\ phpPc = "try"
    /\ SmartParseTo(smartParsePHPArray(cleanString))
    /\ UNCHANGED <<phpValue, phpInput, cleanString, simpleResult, phpLiteral, diffVars,
                   ddlVars>>

\* The catch block: simpleParsePHPArray returns or throws, and parsePHPArray with it.
SimpleParseTo(simple, outcome) ==
    /\ simpleResult' = Some(simple)
    /\ phpResult' = Some(outcome)
    /\ phpPc' = IF outcome.ok THEN "returned" ELSE "thrown"
SimpleParseOf(simple) == SimpleParseTo(simple, outcomeOfCatch(smartResult[1], simple))
SimpleParse ==
    /\ phpPc = "catch"
    /\ SimpleParseOf(simpleParsePHPArray(cleanString))
    /\ UNCHANGED <<phpValue, phpInput, cleanString, smartResult, phpLiteral, diffVars,
                   ddlVars>>

NextPhp ==
    \/ ConvertToPHP
    \/ CleanInput
    \/ SmartParse
    \/ SimpleParse

SpecPhp == InitPhp /\ [][NextPhp]_vars

-----------------------------------------------------------------------------

(* Properties of compareJson *)

\* Deep equality up to the order in which objects list their keys.
RECURSIVE SameUpToKeyOrder(_, _)
SameUpToKeyOrder(a, b) ==
    IF a.t # b.t THEN FALSE
    ELSE IF a.t = "object"
    THEN /\ {a.c[i].k : i \in 1..Len(a.c)} = {b.c[i].k : i \in 1..Len(b.c)}
         /\ \A i \in 1..Len(a.c) : SameUpToKeyOrder(a.c[i].v, Get(b, a.c[i].k))
    ELSE IF a.t = "array"
    THEN /\ Len(a.c) = Len(b.c)
         /\ \A i \in 1..Len(a.c) : SameUpToKeyOrder(a.c[i].v, b.c[i].v)
    ELSE a = b

\* C1: in loose mode two values that hold the same key-value pairs, their
\* objects (at the root or nested) listing the keys in any order, compare as
\* equal with an empty diff list.
C1_LooseOrderInvariance ==
    (diffDone /\ mode = "loose" /\ SameUpToKeyOrder(oldJson, newJson))
        => (diffResult.isEqual = TRUE /\ diffResult.diffs = <<>>)

\* A nested object pair with permuted keys was compared in loose mode.
C1_Witness ==
    /\ diffDone /\ mode = "loose"
    /\ oldJson.t = "array" /\ Len(oldJson.c) = 1 /\ oldJson.c[1].v.t = "object"
    /\ Len(oldJson.c[1].v.c) = 3
    /\ SameUpToKeyOrder(oldJson, newJson) /\ oldJson # newJson
    /\ diffResult.isEqual

\* C2: in strict mode two objects that hold the same key-value pairs but list
\* their keys in a different order compare as unequal, and the diff list has
\* at least one order_changed item.
C2_StrictOrderSensitivity ==
    (/\ diffDone /\ mode = "strict"
     /\ oldJson.t = "object" /\ newJson.t = "object"
     /\ SameUpToKeyOrder(oldJson, newJson)
     /\ ObjectKeys(oldJson) # ObjectKeys(newJson))
        => (/\ diffResult.isEqual = FALSE
            /\ \E n \in 1..Len(diffResult.diffs) : diffResult.diffs[n].type = "order_changed")

\* Two root objects of three keys in a different order were compared in strict mode.
C2_Witness ==
    /\ diffDone /\ mode = "strict"
    /\ oldJson.t = "object" /\ Len(oldJson.c) = 3
    /\ SameUpToKeyOrder(oldJson, newJson)
    /\ ObjectKeys(oldJson) # ObjectKeys(newJson)
    /\ ~diffResult.isEqual

-----------------------------------------------------------------------------

(* Properties of parseDDL *)

\* What parseDDL makes of a statement: a table defined, an index that
\* parseCreateIndex accepted, or nothing.
NoStandalone == [tableName |-> <<>>, index |-> TableIndex("INDEX", <<>>, <<>>)]
Fact(kind, table, entry) == [kind |-> kind, table |-> table, entry |-> entry]
IndexFact(indexResult) ==
    IF indexResult = None THEN Fact("none", NoTable, NoStandalone)
    ELSE Fact("index", NoTable, indexResult[1])
FactOf(stmt) ==
    IF Test(CreateTableRe, stmt) THEN Fact("table", parseCreateTable(stmt).table, NoStandalone)
    ELSE IF Test(CreateIndexRe, stmt) THEN IndexFact(parseCreateIndex(stmt))
    ELSE Fact("none", NoTable, NoStandalone)
\* The facts of the statements before position n, as a sequence.
FactsBefore(n) == <<>> \o [k \in 1..(n - 1) |-> FactOf(statements[k])]

\* The lower-cased name of the table statement k defines, or its index is on.
TableNameAt(read, k) == toLowerCase(read[k].table.tableName)
IndexTableAt(read, k) == toLowerCase(read[k].entry.tableName)
\* A CREATE TABLE statement for the table of index statement k stands before it.
DefinedBefore(read, k) ==
    \E j \in 1..(k - 1) : read[j].kind = "table" /\ TableNameAt(read, j) = IndexTableAt(read, k)
\* Statement k is the last CREATE TABLE statement for the table it names.
IsLastDefinition(read, k) ==
    /\ read[k].kind = "table"
    /\ \A j \in (k + 1)..Len(read) :
          read[j].kind = "table" => TableNameAt(read, j) # TableNameAt(read, k)
\* The positions in 1..n that satisfy Holds, in ascending order.
Positions(n, Holds(_)) == SelectSeq([k \in 1..n |-> k], Holds)
\* Whether two indexes have the same type, name and columns.
SameIndex(x, y) == x.type = y.type /\ x.name = y.name /\ x.columns = y.columns

\* What the step that processes statement k does when the statement is a
\* well-formed CREATE INDEX and its table was defined before.
C7_Attached(read, k) ==
    (read[k].kind = "index" /\ DefinedBefore(read, k))
    => /\ standaloneIndexes' = standaloneIndexes
       /\ HasEntry(tables, IndexTableAt(read, k)) /\ HasEntry(tables', IndexTableAt(read, k))
       /\ LET old == EntryOf(tables, IndexTableAt(read, k)).indexes
              new == EntryOf(tables', IndexTableAt(read, k)).indexes
          IN /\ Len(new) = Len(old) + 1
             /\ SubSeq(new, 1, Len(old)) = old
             /\ SameIndex(new[Len(new)], read[k].entry.index)
C7_Step ==
    (ddlPc = "loop" /\ stmtIdx <= Len(statements) /\ stmtIdx' = stmtIdx + 1)
    => C7_Attached(FactsBefore(stmtIdx + 1), stmtIdx)
\* C7: when a well-formed CREATE INDEX statement is processed and a CREATE TABLE
\* statement for the same table name (compared case-insensitively) stands before
\* it in the input, the index becomes the last element of that table's indexes,
\* the indexes the table had stay in front of it unchanged, and standaloneIndexes
\* stays as it was.
C7_IndexAfterTableIsAttached == [][C7_Step]_vars
\* A CREATE INDEX statement has just been attached to a table that already had
\* an index and whose CREATE TABLE statement spells the name in another case.
C7_Attaching(read, k) ==
    /\ read[k].kind = "index" /\ DefinedBefore(read, k)
    /\ \E j \in 1..(k - 1) :
          /\ read[j].kind = "table" /\ TableNameAt(read, j) = IndexTableAt(read, k)
          /\ read[j].table.tableName # read[k].entry.tableName
    /\ Len(EntryOf(tables, IndexTableAt(read, k)).indexes) >= 2
    /\ SameIndex(EntryOf(tables, IndexTableAt(read, k)).indexes[2], read[k].entry.index)
C7_Witness ==
    /\ ddlPc = "loop" /\ stmtIdx > 1 /\ standaloneIndexes = <<>>
    /\ C7_Attaching(FactsBefore(stmtIdx), stmtIdx - 1)

C8_Standalone(read) ==
    LET ks == Positions(Len(read), LAMBDA k : read[k].kind = "index" /\ ~DefinedBefore(read, k))
    IN ddlResult.standaloneIndexes = [n \in 1..Len(ks) |-> read[ks[n]].entry]
FieldNames(table) == [f \in 1..Len(table.fields) |-> table.fields[f].name]
\* The columns of an index that name no field of the table, in column order.
ColumnsMissingIn(table, index) ==
    SelectSeq(index.columns,
              LAMBDA col : \A f \in 1..Len(table.fields) :
                             toLowerCase(table.fields[f].name) # toLowerCase(col))
\* The indexes that the CREATE INDEX statements after statement k attach to the
\* table statement k defines.
AttachedAfter(read, k) ==
    LET js == Positions(Len(read), LAMBDA j : /\ j > k /\ read[j].kind = "index"
                                              /\ IndexTableAt(read, j) = TableNameAt(read, k))
    IN [n \in 1..Len(js) |->
          [read[js[n]].entry.index EXCEPT
             !.missingColumns = Some(ColumnsMissingIn(read[k].table, read[js[n]].entry.index))]]

\* The tables of the result, by the statements read.
C9_LastWins(read) ==
    LET ks == Positions(Len(read), LAMBDA k : IsLastDefinition(read, k))
    IN /\ Len(ddlResult.tables) = Len(ks)
       /\ \A k \in Range(ks) : \E n \in 1..Len(ddlResult.tables) :
             /\ ddlResult.tables[n].tableName = read[k].table.tableName
             /\ FieldNames(ddlResult.tables[n]) = FieldNames(read[k].table)
             /\ ddlResult.tables[n].indexes = read[k].table.indexes \o AttachedAfter(read, k)
C9_Redefined(read) ==
    \E j, k \in 1..Len(read) :
       /\ j < k /\ read[j].kind = "table" /\ IsLastDefinition(read, k)
       /\ TableNameAt(read, j) = TableNameAt(read, k)
       /\ FieldNames(read[j].table) # FieldNames(read[k].table)
       /\ AttachedAfter(read, k) # <<>>
C10_FieldIndexesMatchTableIndexes ==
    ddlPc = "returned" =>
       \A n \in 1..Len(ddlResult.tables) : \A f \in 1..Len(ddlResult.tables[n].fields) :
          LET field == ddlResult.tables[n].fields[f]
              own == SelectSeq(ddlResult.tables[n].indexes,
                               LAMBDA x : \E c \in 1..Len(x.columns) :
                                   toLowerCase(x.columns[c]) = toLowerCase(field.name))
          IN field.indexes =
                [e \in 1..Len(own) |->
                   [name |-> own[e].name, type |-> own[e].type,
                    isFirst |-> toLowerCase(own[e].columns[1]) = toLowerCase(field.name)]]
\* A result with a field that is a later column of an inline index and the
\* first column of an index attached by a CREATE INDEX statement, its name
\* written in another case there.
C10_Witness ==
    /\ ddlPc = "returned"
    /\ \E n \in 1..Len(ddlResult.tables) : \E f \in 1..Len(ddlResult.tables[n].fields) :
          LET field == ddlResult.tables[n].fields[f]
              table == ddlResult.tables[n]
          IN /\ Len(field.indexes) = 2 /\ Len(table.indexes) = 2
             /\ ~field.indexes[1].isFirst /\ field.indexes[2].isFirst
             /\ table.indexes[2].columns[1] # field.name
             /\ table.indexes[1].missingColumns = Some(<<>>)

-----------------------------------------------------------------------------

(* Properties of parsePHPArray and convertToPHP *)

PhpDone == phpPc \in {"returned", "thrown"}

\* C3: parsePHPArray returns the strict parser's result whenever that parser
\* succeeds, and the degraded parser does not run then; when the strict parser
\* throws, the degraded parser runs and parsePHPArray returns exactly its value
\* or throws exactly its error, which is never the strict parser's error.
C3_StrictFirstThenDegraded ==
    PhpDone =>
       /\ smartResult = Some(smartParsePHPArray(cleanInput(phpInput)))
       /\ IF smartResult[1].ok
          THEN /\ phpPc = "returned"
               /\ phpResult[1].value = smartResult[1].value
               /\ simpleResult = None
          ELSE /\ simpleResult = Some(simpleParsePHPArray(cleanInput(phpInput)))
               /\ IF simpleResult[1].ok
                  THEN phpPc = "returned" /\ phpResult[1].value = simpleResult[1].value
                  ELSE /\ phpPc = "thrown"
                       /\ phpResult[1].error = simpleResult[1].error
                       /\ phpResult[1].error # smartResult[1].error
\* Both parsers threw, and parsePHPArray with the error of the degraded one.
C3_Witness ==
    /\ phpPc = "thrown"
    /\ ~smartResult[1].ok /\ ~simpleResult[1].ok
    /\ phpResult[1].error = SyntaxError

\* Deep equality of two values, the order of the keys of a map left aside.
RECURSIVE DeepEqual(_, _)
DeepEqual(a, b) ==
    IF a.t # b.t THEN FALSE
    ELSE IF a.t = "object"
    THEN /\ {a.c[i].k : i \in 1..Len(a.c)} = {b.c[i].k : i \in 1..Len(b.c)}
         /\ \A i \in 1..Len(a.c) : DeepEqual(a.c[i].v, EntryOf(b.c, a.c[i].k))
    ELSE IF a.t = "array"
    THEN /\ Len(a.c) = Len(b.c)
         /\ \A i \in 1..Len(a.c) : DeepEqual(a.c[i].v, b.c[i].v)
    ELSE a = b
\* No map of the value, at any depth, has keys that are not integers next to
\* integer keys that are not 0, 1, 2, ... in sequence.
RECURSIVE InScope(_)
InScope(v) ==
    /\ \A i \in 1..Len(v.c) : InScope(v.c[i].v)
    /\ v.t = "object" =>
          \/ \A i \in 1..Len(v.c) : IsIndexKey(v.c[i].k)
          \/ \A i \in 1..Len(v.c) :
                IsIndexKey(v.c[i].k) => v.c[i].k = Decimal(i - 1)

\* C4: for every value built from strings, finite numbers, booleans, null,
\* lists and maps (no map mixing keys that are not integers with integer keys
\* out of sequence), parsePHPArray(convertToPHP(v)) returns a value deep-equal
\* to v.
C4_RoundTrip ==
    (phpValue # None /\ PhpDone /\ InScope(phpValue[1]))
        => (phpPc = "returned" /\ DeepEqual(phpResult[1].value, phpValue[1]))

\* The elements of the array literal parsed, and how many elements without a
\* key stand before the i-th.
LiteralElements == [i \in 1..Len(phpLiteral[1].picked) |-> ElementPool[phpLiteral[1].picked[i]]]
UnkeyedBefore(elems, i) == Cardinality({j \in 1..(i - 1) : elems[j].key = None})
StrictParsedLiteral == phpLiteral # None /\ smartResult # None /\ smartResult[1].ok

\* C5: in the result of the strict parser the n-th element written without
\* "=>" (n counted from 0 over the elements without a key) stands under the
\* key n, whatever elements with keys come before it, unless an element written
\* later with the key n replaces it; no two elements without a key get the
\* same key.
C5_UnkeyedElementsCountFromZero ==
    StrictParsedLiteral =>
       \A i \in 1..Len(LiteralElements) :
          (/\ LiteralElements[i].key = None
           /\ \A j \in (i + 1)..Len(LiteralElements) :
                 LiteralElements[j].name # Some(Decimal(UnkeyedBefore(LiteralElements, i))))
            => /\ HasEntry(smartResult[1].value.c, Decimal(UnkeyedBefore(LiteralElements, i)))
               /\ EntryOf(smartResult[1].value.c, Decimal(UnkeyedBefore(LiteralElements, i)))
                     = LiteralElements[i].value

C11_MissingColumnsOfEveryIndex ==
    ddlPc = "returned" =>
       \A n \in 1..Len(ddlResult.tables) : \A x \in 1..Len(ddlResult.tables[n].indexes) :
          ddlResult.tables[n].indexes[x].missingColumns
             = Some(ColumnsMissingIn(ddlResult.tables[n], ddlResult.tables[n].indexes[x]))
\* A result with a table whose inline index misses one of its two columns and
\* whose index attached by a CREATE INDEX statement misses one of its two as well.
C11_Witness ==
    /\ ddlPc = "returned"
    /\ \E m \in 1..Len(ddlResult.tables) :
          /\ Len(ddlResult.tables[m].indexes) = 2
          /\ Len(ddlResult.tables[m].indexes[1].columns) = 2
          /\ Len(ddlResult.tables[m].indexes[1].missingColumns[1]) = 1
          /\ Len(ddlResult.tables[m].indexes[2].columns) = 2
          /\ Len(ddlResult.tables[m].indexes[2].missingColumns[1]) = 1

-----------------------------------------------------------------------------

(* Properties of parseDDL on the texts with one table definition *)

\* The frame and the definitions the text was written from.
Frame == ddlParts[1].frame
Defs == ddlParts[1].defs
\* The positions of the CREATE TABLE statements without a name or a body.
FailingPositions == {i \in 1..Len(Frame) : Frame[i] \in {"noName", "noBody"}}
FirstFailing == CHOOSE i \in FailingPositions : \A j \in FailingPositions : i <= j

\* C12: when a CREATE TABLE statement of the text has no table name or no
\* parenthesised body, parseDDL never returns a result: it goes through the
\* statements no further than the first such statement and throws there, with
\* whatever it collected before left unreturned.
C12_FailingCreateTableAborts ==
    (ddlParts # None /\ FailingPositions # {}) =>
       /\ ddlPc # "returned"
       /\ ddlResult = NoDdlResult
       /\ stmtIdx <= FirstFailing
       /\ (ddlPc = "loop" /\ stmtIdx = FirstFailing =>
             /\ Test(CreateTableRe, statements[stmtIdx])
             /\ ~parseCreateTable(statements[stmtIdx]).ok)
       /\ (ddlPc = "thrown" => stmtIdx = FirstFailing /\ ddlError # "")
\* parseDDL has thrown at the second statement, after it stored the table of the first.
C12_Witness ==
    /\ ddlParts # None /\ ddlPc = "thrown"
    /\ stmtIdx = 2 /\ Len(tables) = 1
    /\ ddlResult = NoDdlResult

\* The index statements of the texts, with the name and the type of the index
\* each creates.
IndexKinds == {"fulltext", "spatial", "unique", "plain"}
CreatedNameOf(kind) ==
    CASE kind = "fulltext" -> <<"f", "t">> [] kind = "spatial" -> <<"s", "x">>
      [] kind = "unique" -> <<"u">> [] kind = "plain" -> <<"p">>
CreatedTypeOf(kind) ==
    CASE kind = "fulltext" -> "FULLTEXT" [] kind = "spatial" -> "SPATIAL"
      [] kind = "unique" -> "UNIQUE" [] kind = "plain" -> "INDEX"
\* The position of the table definition among the statements.
TableAt == CHOOSE i \in 1..Len(Frame) : Frame[i] = "table"
\* Whether the result holds the index of the statement of that kind: in the
\* indexes of the table, or among the standalone indexes with the table named.
IsAttached(kind) ==
    \E n \in 1..Len(ddlResult.tables) : \E x \in 1..Len(ddlResult.tables[n].indexes) :
       /\ ddlResult.tables[n].indexes[x].name = CreatedNameOf(kind)
       /\ ddlResult.tables[n].indexes[x].type = CreatedTypeOf(kind)
IsStandalone(kind) ==
    \E s \in 1..Len(ddlResult.standaloneIndexes) :
       /\ ddlResult.standaloneIndexes[s].index.name = CreatedNameOf(kind)
       /\ ddlResult.standaloneIndexes[s].index.type = CreatedTypeOf(kind)
       /\ toLowerCase(ddlResult.standaloneIndexes[s].tableName) = <<"t">>

\* C13: a CREATE FULLTEXT INDEX or CREATE SPATIAL INDEX statement is processed
\* as CREATE INDEX and CREATE UNIQUE INDEX are: the result holds its index, of
\* type FULLTEXT or SPATIAL, in the indexes of its table when the table was
\* defined before the statement and among the standalone indexes when not.
C13_EveryIndexStatementYieldsItsIndex ==
    (ddlParts # None /\ ddlPc = "returned") =>
       \A i \in 1..Len(Frame) :
          Frame[i] \in IndexKinds =>
             IF TableAt < i THEN IsAttached(Frame[i]) ELSE IsStandalone(Frame[i])

\* The names of the columns the definitions picked declare, in declaration order.
DeclaredColumns ==
    LET declaring == SelectSeq(Defs, LAMBDA d : DefinitionPool[d].column # None)
    IN [i \in 1..Len(declaring) |-> DefinitionPool[declaring[i]].column[1]]

\* C14: the fields of the table list every column of its body in declaration
\* order, a column whose name begins with the letters of an index keyword
\* (key_name, index_no) included: only a definition that starts with the
\* keyword as a whole word is treated as an index.
C14_FieldsListEveryColumn ==
    (ddlParts # None /\ ddlPc = "returned") =>
       /\ Len(ddlResult.tables) = 1
       /\ FieldNames(ddlResult.tables[1]) = DeclaredColumns

\* The text without the parts parseDDL drops: the CREATE INDEX statement
\* without columns, and in the body of the table the spatial index, the
\* constraint and the index without columns.
KeptFrame == SelectSeq(Frame, LAMBDA kind : kind # "malformed")
KeptDefs == SelectSeq(Defs, LAMBDA d : ~DefinitionPool[d].dropped)
TextWithoutDropped == FrameText(KeptFrame, KeptDefs)
HasDropped == KeptFrame # Frame \/ KeptDefs # Defs

-----------------------------------------------------------------------------

(* Properties of compareJson at the nodes of its arguments *)

\* A node of a value is addressed by the steps that lead to it from the root:
\* own keys of objects and indexes of arrays.
KeyStep(key) == [kind |-> "key", name |-> key]
IndexStep(i) == [kind |-> "index", name |-> ToString(i)]
StepsOf(v) ==
    IF v.t = "object" THEN {KeyStep(v.c[i].k) : i \in 1..Len(v.c)}
    ELSE IF v.t = "array" THEN {IndexStep(i - 1) : i \in 1..Len(v.c)}
    ELSE {}
ChildAt(v, step) == v.c[CHOOSE i \in 1..Len(v.c) : v.c[i].k = step.name].v
RECURSIVE Addresses(_)
Addresses(v) ==
    {<<>>} \cup UNION {{<<s>> \o a : a \in Addresses(ChildAt(v, s))} : s \in StepsOf(v)}
RECURSIVE Lookup(_, _)
Lookup(v, addr) == IF addr = <<>> THEN v ELSE Lookup(ChildAt(v, Head(addr)), Tail(addr))
\* The nodes below a node, the node itself left out.
Below(v) == Addresses(v) \ {<<>>}

\* The nodes at which the two values are compared: the root, and under two
\* containers of one kind the steps both of them have.
RECURSIVE ComparedIn(_, _)
ComparedIn(o, n) ==
    {<<>>} \cup
       (IF o.t = n.t
        THEN UNION {{<<s>> \o a : a \in ComparedIn(ChildAt(o, s), ChildAt(n, s))} :
                       s \in StepsOf(o) \cap StepsOf(n)}
        ELSE {})

\* The path of a node as the steps are written: a key with a dot before it
\* unless it is the first step, an index between brackets; "(root)" for the root.
RECURSIVE StepsPath(_)
StepsPath(addr) ==
    IF addr = <<>> THEN ""
    ELSE LET last == addr[Len(addr)]
         IN StepsPath(SubSeq(addr, 1, Len(addr) - 1))
               \o (IF last.kind = "index" THEN "[" \o last.name \o "]"
                   ELSE IF Len(addr) = 1 THEN last.name
                   ELSE "." \o last.name)
PathOf(addr) == IF addr = <<>> THEN "(root)" ELSE StepsPath(addr)

\* The items of the result with that path, in the order of the result.
ItemsAt(path) == SelectSeq(diffResult.diffs, LAMBDA d : d.path = path)
\* Whether the result has no item for a node below the node at addr, the nodes
\* below being those of value v.
NothingBelow(addr, v) == \A b \in Below(v) : ItemsAt(PathOf(addr \o b)) = <<>>
\* The items a comparison of o and n at the node addr gives for the node and
\* the nodes below it, those of the key order left out.
ComparisonAt(addr, o, n) ==
    SelectSeq(compareValues(o, n, StepsPath(addr), mode, <<>>),
              LAMBDA d : d.type # "order_changed")
ItemsFrom(addr, o, n) ==
    SelectSeq(diffResult.diffs,
              LAMBDA d : /\ d.type # "order_changed"
                         /\ d.path \in {PathOf(addr \o b) : b \in Addresses(o) \cup Addresses(n)})

\* C16: at every pair of objects compared, a key of the old object only gives
\* exactly one item, removed with the old value, at the key's path and nothing
\* below; a key of the new object only gives exactly one item, added with the
\* new value, and nothing below; a key of both gives no added or removed item
\* and the items of the comparison of its two values at its path.
C16_KeysOfComparedObjects ==
    diffDone =>
       \A at \in ComparedIn(oldJson, newJson) :
          LET o == Lookup(oldJson, at)
              n == Lookup(newJson, at)
          IN (o.t = "object" /\ n.t = "object") =>
                \A s \in StepsOf(o) \cup StepsOf(n) :
                   IF s \notin StepsOf(n)
                   THEN /\ ItemsAt(PathOf(Append(at, s)))
                              = <<DiffItem(PathOf(Append(at, s)), "removed", ChildAt(o, s),
                                           Undefined, <<>>, <<>>)>>
                        /\ NothingBelow(Append(at, s), ChildAt(o, s))
                   ELSE IF s \notin StepsOf(o)
                   THEN /\ ItemsAt(PathOf(Append(at, s)))
                              = <<DiffItem(PathOf(Append(at, s)), "added", Undefined,
                                           ChildAt(n, s), <<>>, <<>>)>>
                        /\ NothingBelow(Append(at, s), ChildAt(n, s))
                   ELSE /\ \A x \in 1..Len(ItemsAt(PathOf(Append(at, s)))) :
                              ItemsAt(PathOf(Append(at, s)))[x].type \notin {"added", "removed"}
                        /\ ItemsFrom(Append(at, s), ChildAt(o, s), ChildAt(n, s))
                              = ComparisonAt(Append(at, s), ChildAt(o, s), ChildAt(n, s))

\* The positions in the result of the items for the node at addr and the nodes
\* below it, the nodes being those of the values o and n.
PositionsFrom(addr, o, n) ==
    {x \in 1..Len(diffResult.diffs) :
        diffResult.diffs[x].path \in {PathOf(addr \o b) : b \in Addresses(o) \cup Addresses(n)}}
\* The indexes at which two arrays of one length differ.
ChangedIndexes(o, n) == {i \in 0..(Length(o) - 1) : At(o, i) # At(n, i)}
MaxOf(a, b) == IF a >= b THEN a ELSE b
Distance(a, b) == IF a >= b THEN a - b ELSE b - a

C18_DifferentTagsOneModified ==
    diffDone =>
       \A at \in ComparedIn(oldJson, newJson) :
          LET o == Lookup(oldJson, at)
              n == Lookup(newJson, at)
          IN o.t # n.t =>
                /\ SelectSeq(ItemsAt(PathOf(at)), LAMBDA d : d.type = "modified")
                      = <<DiffItem(PathOf(at), "modified", o, n, <<>>, <<>>)>>
                /\ NothingBelow(at, o)
                /\ NothingBelow(at, n)
\* compareJson has compared, under key a, an array of two elements with an
\* object of two keys: the result is one modified item at a.
C18_Witness ==
    /\ diffDone
    /\ oldJson.t = "object" /\ newJson.t = "object"
    /\ HasOwn(oldJson, "a") /\ HasOwn(newJson, "a")
    /\ Get(oldJson, "a").t = "array" /\ Length(Get(oldJson, "a")) = 2
    /\ Get(newJson, "a").t = "object" /\ Len(ObjectKeys(Get(newJson, "a"))) = 2
    /\ diffResult.diffs
          = <<DiffItem("a", "modified", Get(oldJson, "a"), Get(newJson, "a"), <<>>, <<>>)>>

\* C20: the result of compareJson has isEqual = true exactly when its diffs are
\* the empty list, whatever the two values and the mode.
C20_EqualIffNoDiffs ==
    diffDone => (diffResult.isEqual = TRUE <=> diffResult.diffs = <<>>)
\* compareJson has returned, under mode strict, order_changed items and no
\* other for two objects with the same values under the same keys.
C20_Witness ==
    /\ diffDone /\ mode = "strict"
    /\ isEqual(oldJson, newJson)
    /\ diffResult.diffs # <<>>
    /\ \A x \in 1..Len(diffResult.diffs) : diffResult.diffs[x].type = "order_changed"
    /\ diffResult.isEqual = FALSE

-----------------------------------------------------------------------------

(* The values compareJson is applied to that differ at the end of one path *)

MaxDepth == 3     \* steps from the root to the two values that differ

\* The steps of the paths: two keys, one of them the empty string, and two indexes.
PathSteps == {KeyStep("a"), KeyStep(""), IndexStep(0), IndexStep(1)}
StepSeqs == UNION {[1..n -> PathSteps] : n \in 0..MaxDepth}
\* The values at the end of the path.
PathEnds ==
    { Num(1), Num(2), Null, Obj(<<>>), Arr(<<Num(1)>>),
      Obj(<<[k |-> "b", v |-> Num(1)]>>),
      Obj(<<[k |-> "b", v |-> Num(1)], [k |-> "c", v |-> Num(2)]>>),
      Obj(<<[k |-> "c", v |-> Num(2)], [k |-> "b", v |-> Num(1)]>>) }
\* The value that holds x at the end of the steps: under the key of an object
\* of that key alone, at index 0 of an array of one element, or at index 1 of
\* an array whose first element is the number 0.
RECURSIVE Under(_, _)
Under(steps, x) ==
    IF steps = <<>> THEN x
    ELSE LET y == Under(Tail(steps), x)
         IN IF Head(steps).kind = "key" THEN Obj(<<[k |-> Head(steps).name, v |-> y]>>)
            ELSE IF Head(steps).name = "0" THEN Arr(<<y>>)
            ELSE Arr(<<Num(0), y>>)

InitPaths ==
    /\ IdleDdl /\ IdlePhp
    /\ \E steps \in StepSeqs, x \in PathEnds, y \in PathEnds :
          /\ oldJson = Under(steps, x)
          /\ newJson = Under(steps, y)
    /\ mode \in Modes
    /\ diffDone = FALSE
    /\ diffResult = NoResult

SpecPaths == InitPaths /\ [][NextDiff]_vars

\* C19: the path of every item of the result is the steps from the root to the
\* node the item is about, written one after the other: a key k as .k (without
\* the dot when it is the first step), an index i as [i], and (root) for the
\* root itself.  The node of a removed item is a node of the old value only,
\* with the item's old value; that of an added item a node of the new value
\* only, with its new value; that of a modified item a node of both, with the
\* two values; that of an order_changed item a node of both.
C19_PathsAreTheSteps ==
    diffDone =>
       \A x \in 1..Len(diffResult.diffs) :
          LET d == diffResult.diffs[x]
          IN \E addr \in Addresses(oldJson) \cup Addresses(newJson) :
                /\ d.path = PathOf(addr)
                /\ d.type \in {"removed", "modified", "order_changed"} =>
                      addr \in Addresses(oldJson)
                /\ d.type \in {"added", "modified", "order_changed"} =>
                      addr \in Addresses(newJson)
                /\ d.type = "removed" => addr \notin Addresses(newJson)
                /\ d.type = "added" => addr \notin Addresses(oldJson)
                /\ d.type \in {"removed", "modified"} => Lookup(oldJson, addr) = d.oldValue
                /\ d.type \in {"added", "modified"} => Lookup(newJson, addr) = d.newValue

-----------------------------------------------------------------------------

(* Properties of the key order check of compareJson *)

\* The nodes compared that are the value of a key of an object.
ComparedKeys ==
    {addr \in ComparedIn(oldJson, newJson) :
        addr # <<>> /\ addr[Len(addr)].kind = "key"}
\* The nodes compared that are an element of an array.
ComparedElements ==
    {addr \in ComparedIn(oldJson, newJson) :
        addr # <<>> /\ addr[Len(addr)].kind = "index"}

\* C21: under mode loose the result has no order_changed item; under mode
\* strict an order_changed item is at the path of a key of two objects
\* compared and never at the path of an element of an array, so that two
\* arrays with their elements in another order give items by position only.
C21_OrderChangedOnlyForKeys ==
    diffDone =>
       \A x \in 1..Len(diffResult.diffs) :
          diffResult.diffs[x].type = "order_changed" =>
             /\ mode = "strict"
             /\ \E addr \in ComparedKeys : diffResult.diffs[x].path = PathOf(addr)
             /\ \A addr \in ComparedElements : diffResult.diffs[x].path # PathOf(addr)
\* compareJson has compared, under mode strict, two arrays of the same two
\* elements in the other order: two modified items.
C21_Witness ==
    /\ diffDone /\ mode = "strict"
    /\ oldJson.t = "array" /\ newJson.t = "array"
    /\ Length(oldJson) = 2 /\ Length(newJson) = 2
    /\ At(oldJson, 0) = At(newJson, 1) /\ At(oldJson, 1) = At(newJson, 0)
    /\ At(oldJson, 0) # At(oldJson, 1)
    /\ Len(diffResult.diffs) = 2
    /\ \A x \in 1..2 : diffResult.diffs[x].type = "modified"

\* The keys the two objects have in common, in the order of the first.
CommonKeys(o, n) == SelectSeq(ObjectKeys(o), LAMBDA key : HasOwn(n, key))
\* Whether the result has an order_changed item at the path of the node.
HasOrderChanged(addr) ==
    \E x \in 1..Len(diffResult.diffs) :
       diffResult.diffs[x].type = "order_changed" /\ diffResult.diffs[x].path = PathOf(addr)

\* C22: under mode strict, two objects compared whose common keys stand in
\* the same relative order on both sides give no order_changed item for any
\* of their keys, whatever other keys one side has before, between or after them.
C22_SameRelativeOrderNoOrderChanged ==
    (diffDone /\ mode = "strict") =>
       \A at \in ComparedIn(oldJson, newJson) :
          LET o == Lookup(oldJson, at)
              n == Lookup(newJson, at)
          IN (o.t = "object" /\ n.t = "object" /\ CommonKeys(o, n) = CommonKeys(n, o)) =>
                \A s \in StepsOf(o) \cup StepsOf(n) : ~HasOrderChanged(Append(at, s))
\* compareJson has compared, under mode strict, an object of two keys with an
\* object that has a third key between the two: no order_changed item.
C22_Witness ==
    /\ diffDone /\ mode = "strict"
    /\ oldJson.t = "object" /\ newJson.t = "object"
    /\ ObjectKeys(oldJson) = <<"a", "b">>
    /\ ObjectKeys(newJson) = <<"a", "toString", "b">>
    /\ diffResult.diffs # <<>>
    /\ \A x \in 1..Len(diffResult.diffs) : diffResult.diffs[x].type # "order_changed"

\* The items of a list of diffs that are no order_changed item, in their order.
WithoutOrderChanged(diffs) == SelectSeq(diffs, LAMBDA d : d.type # "order_changed")

\* C23: the result under mode strict without its order_changed items is the
\* result under mode loose, the items in the same order: the key order check
\* takes away, changes and adds no added, removed or modified item.
C23_StrictIsLoosePlusOrderChanged ==
    diffDone =>
       /\ mode = "strict" =>
             WithoutOrderChanged(diffResult.diffs) = compareJson(oldJson, newJson, "loose").diffs
       /\ mode = "loose" =>
             diffResult.diffs
                = WithoutOrderChanged(compareJson(oldJson, newJson, "strict").diffs)
\* compareJson has returned, under mode strict, an order_changed item and a
\* modified item for one key.
C23_Witness ==
    /\ diffDone /\ mode = "strict"
    /\ \E x, y \in 1..Len(diffResult.diffs) :
          /\ diffResult.diffs[x].type = "order_changed"
          /\ diffResult.diffs[y].type = "modified"
          /\ diffResult.diffs[x].path = diffResult.diffs[y].path

-----------------------------------------------------------------------------

(* The objects compareJson is applied to that have keys with a dot *)

\* The keys of the root objects: "a", whose value is an object with keys among
\* "b" and "c", and two keys written as the paths of those keys.
DottedKeys == {"a", "a.b", "a.c"}
NestedKeys == {"b", "c"}
DistinctSeqs(S) ==
    {ks \in UNION {[1..n -> S] : n \in 0..Cardinality(S)} :
        \A i, j \in 1..Len(ks) : i # j => ks[i] # ks[j]}
NestedObjects ==
    {Obj([i \in 1..Len(ks) |-> [k |-> ks[i], v |-> Num(1)]]) : ks \in DistinctSeqs(NestedKeys)}
DottedObjects ==
    UNION {{Obj([i \in 1..Len(ks) |->
                   [k |-> ks[i], v |-> IF ks[i] = "a" THEN nested ELSE Num(1)]]) :
               nested \in NestedObjects} : ks \in DistinctSeqs(DottedKeys)}

InitKeys ==
    /\ IdleDdl /\ IdlePhp
    /\ oldJson \in DottedObjects
    /\ newJson \in DottedObjects
    /\ mode \in Modes
    /\ diffDone = FALSE
    /\ diffResult = NoResult

SpecKeys == InitKeys /\ [][NextDiff]_vars

\* The index of a key among the keys common to o and n, in the order of o (from 0).
IndexAmongCommon(o, n, key) == IndexOf(CommonKeys(o, n), key)

\* C27: under mode strict, at every pair of objects compared and for every
\* key of both whose index among the common keys in the order of the old
\* object is another than in the order of the new one, the result has exactly
\* one order_changed item for the key at that level: with the path of the key,
\* the two indexes, and no old or new value.
C27_OneOrderChangedPerMovedKey ==
    (diffDone /\ mode = "strict") =>
       \A at \in ComparedIn(oldJson, newJson) :
          LET o == Lookup(oldJson, at)
              n == Lookup(newJson, at)
          IN (o.t = "object" /\ n.t = "object") =>
                \A s \in StepsOf(o) \cap StepsOf(n) :
                   IndexAmongCommon(o, n, s.name) # IndexAmongCommon(n, o, s.name) =>
                      SelectSeq(ItemsAt(PathOf(Append(at, s))),
                                LAMBDA d : d.type = "order_changed")
                         = <<DiffItem(PathOf(Append(at, s)), "order_changed", Undefined, Undefined,
                                      <<IndexAmongCommon(o, n, s.name)>>,
                                      <<IndexAmongCommon(n, o, s.name)>>)>>

-----------------------------------------------------------------------------

(* Properties of convertToPHP *)

\* Whether a key is a string of decimal digits.
IsDigits(key) == key # <<>> /\ \A i \in 1..Len(key) : key[i] \in DigitChars
\* Whether the keys are strings of digits whose numbers, sorted, are 0 .. N-1.
CountFromZero(keys) ==
    /\ keys # <<>>
    /\ \A i \in 1..Len(keys) : IsDigits(keys[i])
    /\ \E order \in [1..Len(keys) -> 1..Len(keys)] :
          \A i \in 1..Len(keys) : Number(keys[order[i]]) = i - 1
\* The key as written in front of a value: single-quoted, or bare when of digits.
KeyMarker(key) ==
    (IF IsDigits(key) THEN key ELSE <<"'">> \o escapeKey(key) \o <<"'">>) \o <<" ", "=", ">", " ">>
\* The text of an array literal of the entries written, one on a line.
LiteralOf(written) ==
    IF written = <<>> THEN <<"[", "]">>
    ELSE <<"[", "\n">>
           \o Concat([i \in 1..Len(written) |->
                        <<" ", " ", " ", " ">> \o written[i]
                           \o (IF i < Len(written) THEN <<",">> ELSE <<>>) \o <<"\n">>],
                     1, Len(written))
           \o <<"]">>
\* The value convertToPHP was applied to, when the run began with it.
Converted == phpValue # None /\ phpPc # "convert"

\* C24: convertToPHP writes the entries of a map without their keys exactly
\* when the map is not empty, every key is a string of digits and the numbers
\* of the keys, sorted, are 0 .. N-1; else it writes every entry with its key,
\* single-quoted, or bare when the key is of digits.  The elements of a list
\* are written without keys.
C24_KeysOmittedIffCountFromZero ==
    Converted =>
       LET obj == phpValue[1]
           keys == ObjectKeys(obj)
       IN /\ (obj.t = "object") =>
                phpInput = LiteralOf([i \in 1..Len(keys) |->
                                        (IF CountFromZero(keys) THEN <<>> ELSE KeyMarker(keys[i]))
                                           \o convertToPHP(Get(obj, keys[i]), 1)])
          /\ (obj.t = "array") =>
                phpInput = LiteralOf([i \in 1..Length(obj) |-> convertToPHP(At(obj, i - 1), 1)])
\* convertToPHP has written a map with the keys 0 and 1.
C24_Witness ==
    /\ Converted
    /\ phpValue[1].t = "object"
    /\ ObjectKeys(phpValue[1]) = <<<<"0">>, <<"1">>>>
    /\ Len(phpInput) > 2

-----------------------------------------------------------------------------

(* The array literals simpleParsePHPArray is applied to on its own, and its run *)

MaxPairs == 2     \* elements of an array literal given to simpleParsePHPArray

\* The keys of the elements, as they are written before "=>" (none for an
\* element without a key) and the property names they stand for: quoted with
\* single and with double quotes, a bare word, and two keys of digits.
KeyForms == {"none", "single", "double", "bare", "one", "two"}
KeyTextOf(form) ==
    CASE form = "single" -> <<"'", "x", "'">> [] form = "double" -> <<"\"", "y", "\"">> [] form = "bare" -> <<"f", "o", "o">>
      [] form = "one" -> <<"1">> [] form = "two" -> <<"2">>
KeyNameOf(form) ==
    CASE form = "single" -> <<"x">> [] form = "double" -> <<"y">> [] form = "bare" -> <<"f", "o", "o">>
      [] form = "one" -> <<"1">> [] form = "two" -> <<"2">>
\* The values of the elements, as they are written, and the values they stand
\* for: the three constants, a string and a number.
ValueForms == {"INF", "-INF", "NAN", "string", "number"}
ValueTextOf(form) ==
    CASE form = "INF" -> <<"I", "N", "F">> [] form = "-INF" -> <<"-", "I", "N", "F">> [] form = "NAN" -> <<"N", "A", "N">>
      [] form = "string" -> <<"'", "a", "'">> [] form = "number" -> <<"7">>
ValueOf(form) ==
    CASE form = "INF" -> PHPString(<<"I", "n", "f", "i", "n", "i", "t", "y">>) [] form = "-INF" -> PHPString(<<"-", "I", "n", "f", "i", "n", "i", "t", "y">>)
      [] form = "NAN" -> PHPString(<<"N", "a", "N">>) [] form = "string" -> PHPString(<<"a">>)
      [] form = "number" -> PHPNumber(<<"7">>)
PairSeqs == UNION {[1..n -> KeyForms \X ValueForms] : n \in 0..MaxPairs}
PairText(pair) ==
    (IF pair[1] = "none" THEN <<>> ELSE KeyTextOf(pair[1]) \o <<" ", "=", ">", " ">>) \o ValueTextOf(pair[2])
\* The array literal of the pairs, in the short syntax.
PairsLiteral(pairs) ==
    <<"[">>
      \o Concat([i \in 1..Len(pairs) |->
                   (IF i > 1 THEN <<",", " ">> ELSE <<>>) \o PairText(pairs[i])],
                1, Len(pairs))
      \o <<"]">>

InitSimple ==
    /\ IdleDiff /\ IdleDdl
    /\ phpValue = None
    /\ \E pairs \in PairSeqs :
          /\ phpInput = PairsLiteral(pairs)
          /\ phpLiteral = Some([pairs |-> pairs])
    /\ phpPc = "degraded"
    /\ NoCall

\* simpleParsePHPArray(phpInput) is called and returns or throws.
SimpleParseAlone ==
    /\ phpPc = "degraded"
    /\ simpleResult' = Some(simpleParsePHPArray(phpInput))
    /\ phpPc' = IF simpleParsePHPArray(phpInput).ok THEN "returned" ELSE "thrown"
    /\ UNCHANGED <<phpValue, phpInput, cleanString, smartResult, phpResult, phpLiteral, diffVars,
                   ddlVars>>

NextSimple == SimpleParseAlone

SpecSimple == InitSimple /\ [][NextSimple]_vars

(* Properties of simpleParsePHPArray *)

\* The pairs of the literal, once simpleParsePHPArray has ended on it.
Pairs == phpLiteral[1].pairs
SimpleDone == phpPc \in {"returned", "thrown"} /\ phpLiteral # None /\ simpleResult # None
\* Whether the pairs have keys of those forms, no two pairs the same key.
KeyedBy(forms) ==
    /\ Pairs # <<>>
    /\ \A i \in 1..Len(Pairs) : Pairs[i][1] \in forms
    /\ \A i, j \in 1..Len(Pairs) : i # j => Pairs[i][1] # Pairs[j][1]
\* Whether simpleParsePHPArray has returned the map of the pairs.
ReturnedMapOfPairs ==
    /\ simpleResult[1].ok
    /\ simpleResult[1].value.t = "object"
    /\ Len(ObjectKeys(simpleResult[1].value)) = Len(Pairs)
    /\ \A i \in 1..Len(Pairs) :
          /\ HasOwn(simpleResult[1].value, KeyNameOf(Pairs[i][1]))
          /\ Get(simpleResult[1].value, KeyNameOf(Pairs[i][1])) = ValueOf(Pairs[i][2])

\* C25: simpleParsePHPArray rewrites the constants INF, -INF and NAN that
\* stand as values to the strings "Infinity", "-Infinity" and "NaN": an array
\* literal with quoted keys parses to the map of the keys with those strings
\* for the constants.
C25_ConstantsBecomeStrings ==
    (SimpleDone /\ KeyedBy({"single", "double"})) => ReturnedMapOfPairs

\* C26: every key written before "=>", a bare word, a key of digits or a
\* quoted key, ends up as a double-quoted key of the rewritten text: an array
\* literal with keys of any of these forms, keys of digits alone included,
\* parses to the map of the keys.
C26_EveryKeyIsQuoted ==
    (/\ SimpleDone /\ KeyedBy(KeyForms \ {"none"})
     /\ \A i \in 1..Len(Pairs) : Pairs[i][2] \in {"string", "number"}) => ReturnedMapOfPairs

-----------------------------------------------------------------------------
(* Properties of parseDDL: what becomes of the CREATE INDEX statements *)

\* The places of the result that hold the index of statement k: the entries of
\* standaloneIndexes with its table name and its index, and the indexes of the
\* tables with its table name (in lower case) that have its type, name and columns.
StandalonePlaces(read, k) ==
    {s \in 1..Len(ddlResult.standaloneIndexes) : ddlResult.standaloneIndexes[s] = read[k].entry}
AttachedPlaces(read, k) ==
    {place \in (1..Len(ddlResult.tables)) \X (1..MaxStmts) :
        /\ toLowerCase(ddlResult.tables[place[1]].tableName) = IndexTableAt(read, k)
        /\ place[2] <= Len(ddlResult.tables[place[1]].indexes)
        /\ SameIndex(ddlResult.tables[place[1]].indexes[place[2]], read[k].entry.index)}
\* The well-formed CREATE INDEX statements that read as statement k does.
SameStatements(read, k) ==
    {j \in 1..Len(read) : read[j].kind = "index" /\ read[j].entry = read[k].entry}
C30_EachOnce(read) ==
    \A k \in 1..Len(read) :
       read[k].kind = "index" =>
          Cardinality(StandalonePlaces(read, k)) + Cardinality(AttachedPlaces(read, k))
             = Cardinality(SameStatements(read, k))
\* C30: in every result each well-formed CREATE INDEX statement of the input is
\* represented exactly once, in the indexes of one table of result.tables or in
\* standaloneIndexes, also when a later statement defines its table again.
C30_NoIndexLostOrDuplicated ==
    ddlPc = "returned" => C30_EachOnce(FactsBefore(Len(statements) + 1))
\* The same for the inputs in which no CREATE TABLE statement stands after a
\* CREATE INDEX statement on the table it defines.
C30_WithoutLaterDefinition ==
    (/\ ddlPc = "returned"
     /\ LET read == FactsBefore(Len(statements) + 1)
        IN \A k, j \in 1..Len(read) :
              (k < j /\ read[k].kind = "index" /\ read[j].kind = "table")
                 => TableNameAt(read, j) # IndexTableAt(read, k))
    => C30_EachOnce(FactsBefore(Len(statements) + 1))

-----------------------------------------------------------------------------
(* The bodies splitDefinitions is applied to on its own, and its run *)

\* The longest body.
MaxContent == 5

\* The characters a body is written with: a letter, the comma, the two
\* parentheses, two of the quotes, the backslash and the space.
ContentChars == {"a", ",", "(", ")", "'", "\"", "\\", " "}
Contents == UNION {[1..n -> ContentChars] : n \in 0..MaxContent}

\* Before the call: the body is any of the texts above.
InitSplit ==
    /\ IdleDiff /\ IdlePhp
    /\ ddlText \in Contents
    /\ ddlPc = "split"
    /\ statements = <<>> /\ stmtIdx = 0
    /\ tables = <<>> /\ standaloneIndexes = <<>>
    /\ ddlError = None /\ ddlResult = None
    /\ ddlParts = None

\* splitDefinitions(ddlText) is called and returns its list of definitions.
SplitAlone ==
    /\ ddlPc = "split"
    /\ ddlResult' = Some(splitDefinitions(ddlText))
    /\ ddlPc' = "cut"
    /\ UNCHANGED <<ddlText, ddlParts, statements, stmtIdx, tables, standaloneIndexes, ddlError,
                   diffVars, phpVars>>

NextSplit == SplitAlone

SpecSplit == InitSplit /\ [][NextSplit]_vars

-----------------------------------------------------------------------------
(* Properties of splitDefinitions *)

\* Reading a body from left to right: inside a quoted run a backslash takes the
\* next character with it (so that character, quote or backslash, is escaped)
\* and the quote that opened the run, when it is not escaped, ends it; outside,
\* a quote opens a run, the parentheses count the depth, and a comma at depth 0
\* is a place where the body is cut.
ReadStep(content, st) ==
    LET char == content[st.i]
        next == [st EXCEPT !.i = @ + 1]
    IN IF st.run # ""
       THEN IF st.escaped THEN [next EXCEPT !.escaped = FALSE]
            ELSE IF char = "\\" THEN [next EXCEPT !.escaped = TRUE]
            ELSE IF char = st.run THEN [next EXCEPT !.run = ""]
            ELSE next
       ELSE IF char \in {"'", "\"", Backtick} THEN [next EXCEPT !.run = char]
       ELSE IF char = "(" THEN [next EXCEPT !.depth = @ + 1]
       ELSE IF char = ")" THEN [next EXCEPT !.depth = @ - 1]
       ELSE IF char = "," /\ st.depth = 0 THEN [next EXCEPT !.cuts = Append(@, st.i)]
       ELSE next
\* The positions of the commas at depth 0 and outside every quoted run, in order.
CutsOf(content) ==
    Loop(LAMBDA st : ReadStep(content, st), LAMBDA st : st.i > Len(content),
         [i |-> 1, run |-> "", escaped |-> FALSE, depth |-> 0, cuts |-> <<>>],
         Len(content)).cuts
\* The body cut at these positions, every piece trimmed, in source order; what
\* follows the last cut is a piece when it is not blank.
PiecesOf(content) ==
    LET cuts == CutsOf(content)
        from(k) == IF k = 1 THEN 1 ELSE cuts[k - 1] + 1
        last == Trim(SubSeq(content, from(Len(cuts) + 1), Len(content)))
        cutOff == [k \in 1..Len(cuts) |-> Trim(SubSeq(content, from(k), cuts[k] - 1))]
    IN IF last # <<>> THEN Append(cutOff, last) ELSE cutOff

\* splitDefinitions has returned.
SplitDone == ddlPc = "cut"
\* The body has a quoted run with two backslashes in a row.
BackslashEscaped ==
    \E i \in 1..(Len(ddlText) - 1) : ddlText[i] = "\\" /\ ddlText[i + 1] = "\\"

\* C28: splitDefinitions cuts the body exactly at the commas at parenthesis
\* depth 0 and outside every quoted run, where an escaped quote does not end
\* the run and an unescaped matching quote does, and returns the trimmed pieces
\* in source order.
C28_CutsAtTopLevelCommas == SplitDone => ddlResult[1] = PiecesOf(ddlText)
\* The same for the bodies without two backslashes in a row.
C28_WithoutEscapedBackslash ==
    (SplitDone /\ ~BackslashEscaped) => ddlResult[1] = PiecesOf(ddlText)

====
